---------------------------- MODULE Spec2Model ----------------------------
(***************************************************************************)
(* A model of the chust chess rules engine: src/src/piece.rs (move          *)
(* geometry) and src/src/board.rs (position, notation translation,         *)
(* legality validation, move application, game replay).                    *)
(*                                                                         *)
(* Squares are indexed 0..63, 0 = a1, +1 per file, +8 per rank.  Strings   *)
(* (move tokens, board layouts) are sequences of one-character strings.    *)
(***************************************************************************)
EXTENDS Integers, Sequences, FiniteSets, TLC

(***************************************************************************)
(* piece.rs                                                                *)
(***************************************************************************)

NONE == "NONE"
BLACK == "BLACK"
WHITE == "WHITE"

KING == "KING"
PAWN == "PAWN"
KNIGHT == "KNIGHT"
BISHOP == "BISHOP"
ROOK == "ROOK"
QUEEN == "QUEEN"

\* Color::opposite
opposite(c) ==
    CASE c = NONE -> NONE
      [] c = BLACK -> WHITE
      [] c = WHITE -> BLACK

\* Piece::default: the empty-square sentinel
PieceDefault == [p_type |-> NONE, color |-> NONE, has_moved |-> FALSE]

\* Piece::new
PieceNew(p_type, color) == [p_type |-> p_type, color |-> color, has_moved |-> FALSE]

\* Piece::is_none
is_none(p) == p.p_type = NONE

\* Piece::is_sliding
is_sliding(p) == p.p_type \in {BISHOP, ROOK, QUEEN}

Min(a, b) == IF a < b THEN a ELSE b
Max(a, b) == IF a < b THEN b ELSE a

\* position_to_row_col: <<row, col>> (1-based), or <<>> for None
position_to_row_col(position) ==
    IF \E i \in 0..7 : position >= 8 * i /\ position < 8 * (i + 1)
    THEN LET i == CHOOSE i \in 0..7 : position >= 8 * i /\ position < 8 * (i + 1)
         IN  IF (position + 1) % 8 = 0
             THEN <<i + 1, 8>>
             ELSE <<i + 1, (position + 1) % 8>>
    ELSE <<>>

\* get_moves_for_rook whose loops to the left and right run over the whole
\* rank width whatever the column
get_moves_for_rook_any_column(position) ==
    LET ptcr == position_to_row_col(position)
    IN  IF ptcr = <<>> THEN {}
        ELSE LET row == ptcr[1]
             IN  {-8 * i : i \in 1..(row - 1)}
                 \cup {8 * i : i \in 1..(8 - row)}
                 \cup {-1 * i : i \in 1..7}
                 \cup {i : i \in 1..7}

\* Piece::get_moves_for_rook (the Vec is only ever searched: a set)
get_moves_for_rook(position) ==
    LET ptcr == position_to_row_col(position)
    IN  IF ptcr = <<>> THEN {}
        ELSE LET row == ptcr[1]
                 col == ptcr[2]
             IN  {-8 * i : i \in 1..(row - 1)}
                 \cup {8 * i : i \in 1..(8 - row)}
                 \cup {-1 * i : i \in 1..(col - 1)}
                 \cup {i : i \in 1..(8 - col)}

\* Piece::get_moves_for_bishop
get_moves_for_bishop(position) ==
    LET ptcr == position_to_row_col(position)
    IN  IF ptcr = <<>> THEN {}
        ELSE LET row == ptcr[1]
                 col == ptcr[2]
             IN  {7 * i : i \in 1..(Min(9 - row, col) - 1)}
                 \cup {9 * i : i \in 1..(Min(9 - row, 9 - col) - 1)}
                 \cup {-9 * i : i \in 1..(Min(row, col) - 1)}
                 \cup {-7 * i : i \in 1..(Min(row, 9 - col) - 1)}

\* Piece::get_moves_for_pawn
get_moves_for_pawn(p, position) ==
    LET modifier == IF p.color = BLACK THEN -1 ELSE 1
        col == position_to_row_col(position)[2]
    IN  {8 * modifier}
        \cup (IF col = 1 THEN {9 * modifier}
              ELSE IF col = 8 THEN {7 * modifier}
              ELSE {7 * modifier, 9 * modifier})
        \cup (IF ~p.has_moved THEN {16 * modifier} ELSE {})

\* Piece::get_moves
get_moves(p, position) ==
    CASE p.p_type = NONE -> {}
      [] p.p_type = KING ->
            {-1, 7, 8, 9, 1, -7, -8, -9}
            \cup (IF ~p.has_moved THEN {-2, 2} ELSE {})
      [] p.p_type = PAWN -> get_moves_for_pawn(p, position)
      [] p.p_type = KNIGHT -> {6, 15, 17, 10, -6, -15, -17, -10}
      [] p.p_type = BISHOP -> get_moves_for_bishop(position)
      [] p.p_type = ROOK -> get_moves_for_rook(position)
      [] p.p_type = QUEEN ->
            get_moves_for_rook(position) \cup get_moves_for_bishop(position)

\* Piece::get_sliding_moves: the unit steps, in the order the code walks them
get_sliding_moves(p) ==
    CASE p.p_type = BISHOP -> <<9, 7, -9, -7>>
      [] p.p_type = ROOK -> <<8, 1, -8, -1>>
      [] p.p_type = QUEEN -> <<9, 7, -9, -7, 8, 1, -8, -1>>
      [] OTHER -> <<>>


(***************************************************************************)
(* board.rs: transitions                                                   *)
(***************************************************************************)

OUT_OF_BOARD == 64
DEFAULT_PROMOTION == NONE

\* struct Transition(from, to, promotion)
TransitionDefault == <<OUT_OF_BOARD, OUT_OF_BOARD, DEFAULT_PROMOTION>>
remove_piece(from) == <<from, OUT_OF_BOARD, DEFAULT_PROMOTION>>
TransitionNew(from, to) == <<from, to, DEFAULT_PROMOTION>>
new_with_promotion(from, to, promotion) == <<from, to, promotion>>
is_default(t) == t[1] = OUT_OF_BOARD /\ t[2] = OUT_OF_BOARD

(***************************************************************************)
(* Characters.  Ascii gives the code points the code computes with         *)
(* (c as i32 - 'a' as i32, to_digit, is_lowercase).                        *)
(***************************************************************************)

Digits == <<"0", "1", "2", "3", "4", "5", "6", "7", "8", "9">>
Lower == <<"a", "b", "c", "d", "e", "f", "g", "h", "i", "j", "k", "l", "m",
           "n", "o", "p", "q", "r", "s", "t", "u", "v", "w", "x", "y", "z">>
Upper == <<"A", "B", "C", "D", "E", "F", "G", "H", "I", "J", "K", "L", "M",
           "N", "O", "P", "Q", "R", "S", "T", "U", "V", "W", "X", "Y", "Z">>

IndexOf(seq, c) == CHOOSE i \in 1..Len(seq) : seq[i] = c
InSeq(seq, c) == \E i \in 1..Len(seq) : seq[i] = c

is_digit(c) == InSeq(Digits, c)
to_digit(c) == IndexOf(Digits, c) - 1
is_lowercase(c) == InSeq(Lower, c)
to_ascii_lowercase(c) == IF InSeq(Upper, c) THEN Lower[IndexOf(Upper, c)] ELSE c

Ascii(c) ==
    CASE InSeq(Lower, c) -> 96 + IndexOf(Lower, c)
      [] InSeq(Upper, c) -> 64 + IndexOf(Upper, c)
      [] InSeq(Digits, c) -> 47 + IndexOf(Digits, c)
      [] c = "#" -> 35
      [] c = "+" -> 43
      [] c = "-" -> 45
      [] c = "/" -> 47
      [] c = "=" -> 61

\* letter_to_i32
letter_to_i32(l) == Ascii(l) - Ascii("a")

\* the tail of a sequence from index i on
Tail_from(s, i) == SubSeq(s, i, Len(s))

\* str::starts_with, looked for at index i of s
starts_with_at(s, pat, i) ==
    /\ i + Len(pat) - 1 <= Len(s)
    /\ \A j \in 1..Len(pat) : s[i + j - 1] = pat[j]

starts_with(s, pat) == starts_with_at(s, pat, 1)

\* the concatenation of pieces[lo..hi], halving the range
RECURSIVE concat(_, _, _)
concat(pieces, lo, hi) ==
    IF lo > hi THEN <<>>
    ELSE IF lo = hi THEN pieces[lo]
    ELSE LET mid == (lo + hi) \div 2
         IN  concat(pieces, lo, mid) \o concat(pieces, mid + 1, hi)

\* str::replace: every match of pat, leftmost first and without overlap,
\* becomes rep.  taken[i] says that a replaced match starts at index i: pat
\* matches there and no replaced match started on the Len(pat) - 1 indices
\* before it
replace(s, pat, rep) ==
    LET taken[i \in 1..Len(s)] ==
            /\ starts_with_at(s, pat, i)
            /\ \A j \in Max(1, i - Len(pat) + 1)..(i - 1) : ~taken[j]
        covered(i) ==
            \E j \in Max(1, i - Len(pat) + 1)..(i - 1) : taken[j]
        pieces == [i \in 1..Len(s) |->
                     IF taken[i] THEN rep
                     ELSE IF covered(i) THEN <<>>
                     ELSE <<s[i]>>]
    IN  concat(pieces, 1, Len(s))

\* str::find: the index of the first match of pat in s, 0 when there is none
find(s, pat) ==
    IF \E i \in 1..Len(s) : starts_with_at(s, pat, i)
    THEN CHOOSE i \in 1..Len(s) :
            /\ starts_with_at(s, pat, i)
            /\ \A j \in 1..(i - 1) : ~starts_with_at(s, pat, j)
    ELSE 0

\* str::replacen(pat, rep, 1): only the first match is replaced
replacen_once(s, pat, rep) ==
    LET i == find(s, pat)
    IN  IF i = 0 THEN s
        ELSE SubSeq(s, 1, i - 1) \o rep \o Tail_from(s, i + Len(pat))

\* str::split_once(" "): the text before and after the first space, or
\* found = FALSE when s has no space
split_once(s, pat) ==
    LET i == find(s, pat)
    IN  IF i = 0 THEN [found |-> FALSE, head |-> s, rest |-> <<>>]
        ELSE [found |-> TRUE, head |-> SubSeq(s, 1, i - 1),
              rest |-> Tail_from(s, i + Len(pat))]

\* the decimal digits format!("{}", n) writes for n >= 0
RECURSIVE to_string(_)
to_string(n) ==
    IF n < 10 THEN <<Digits[n + 1]>>
    ELSE Append(to_string(n \div 10), Digits[(n % 10) + 1])

(***************************************************************************)
(* board.rs: Board state as a record, threaded through the operations      *)
(***************************************************************************)
Squares == 0..63

InBoard(i) == i \in Squares

\* swap_color_to_move without its assignment: the turn never passes
swap_color_to_move_keeps(b) == b

\* swap_color_to_move
swap_color_to_move(b) ==
    [b EXCEPT !.color_to_move = opposite(b.color_to_move)]

\* HashMap::insert on kings_positions
kp_insert(kp, color, inx) ==
    [c \in (DOMAIN kp) \cup {color} |-> IF c = color THEN inx ELSE kp[c]]

\* make_move that leaves the moving piece on its source square as well
make_move_copies(b, tr, swap_color) ==
    LET from == tr[1]
        to == tr[2]
    IN  IF to = OUT_OF_BOARD
        THEN [b EXCEPT !.squares[from] = PieceDefault]
        ELSE LET moved == [b.squares[from] EXCEPT
                              !.has_moved = TRUE,
                              !.p_type = IF tr[3] /= DEFAULT_PROMOTION
                                         THEN tr[3] ELSE @]
                 sq == [b.squares EXCEPT ![to] = moved]
                 b1 == [b EXCEPT !.squares = sq]
                 b2 == IF swap_color
                       THEN [b1 EXCEPT !.color_to_move =
                                opposite(b1.color_to_move)]
                       ELSE b1
                 b3 == IF sq[to].p_type = KING
                       THEN [b2 EXCEPT !.kings_positions =
                                kp_insert(b2.kings_positions, sq[to].color, to)]
                       ELSE b2
             IN  [b3 EXCEPT !.last_transition = <<from, to, DEFAULT_PROMOTION>>]

\* make_move that does not mark the moved piece
make_move_keeps_flag(b, tr, swap_color) ==
    LET from == tr[1]
        to == tr[2]
    IN  IF to = OUT_OF_BOARD
        THEN [b EXCEPT !.squares[from] = PieceDefault]
        ELSE LET moved == [b.squares[from] EXCEPT
                              !.p_type = IF tr[3] /= DEFAULT_PROMOTION
                                         THEN tr[3] ELSE @]
                 sq == [b.squares EXCEPT ![to] = moved, ![from] = PieceDefault]
                 b1 == [b EXCEPT !.squares = sq]
                 b2 == IF swap_color
                       THEN [b1 EXCEPT !.color_to_move =
                                opposite(b1.color_to_move)]
                       ELSE b1
                 b3 == IF sq[to].p_type = KING
                       THEN [b2 EXCEPT !.kings_positions =
                                kp_insert(b2.kings_positions, sq[to].color, to)]
                       ELSE b2
             IN  [b3 EXCEPT !.last_transition = <<from, to, DEFAULT_PROMOTION>>]

\* make_move that records the promotion kind in last_transition
make_move_records_promotion(b, tr, swap_color) ==
    LET from == tr[1]
        to == tr[2]
    IN  IF to = OUT_OF_BOARD
        THEN [b EXCEPT !.squares[from] = PieceDefault]
        ELSE LET moved == [b.squares[from] EXCEPT
                              !.has_moved = TRUE,
                              !.p_type = IF tr[3] /= DEFAULT_PROMOTION
                                         THEN tr[3] ELSE @]
                 sq == [b.squares EXCEPT ![to] = moved, ![from] = PieceDefault]
                 b1 == [b EXCEPT !.squares = sq]
                 b2 == IF swap_color
                       THEN [b1 EXCEPT !.color_to_move =
                                opposite(b1.color_to_move)]
                       ELSE b1
                 b3 == IF sq[to].p_type = KING
                       THEN [b2 EXCEPT !.kings_positions =
                                kp_insert(b2.kings_positions, sq[to].color, to)]
                       ELSE b2
             IN  [b3 EXCEPT !.last_transition = <<from, to, tr[3]>>]

\* make_move that leaves the mover's color on the square it vacates
make_move_leaves_color(b, tr, swap_color) ==
    LET from == tr[1]
        to == tr[2]
        left == [PieceDefault EXCEPT !.color = b.squares[from].color]
    IN  IF to = OUT_OF_BOARD
        THEN [b EXCEPT !.squares[from] = left]
        ELSE LET moved == [b.squares[from] EXCEPT
                              !.has_moved = TRUE,
                              !.p_type = IF tr[3] /= DEFAULT_PROMOTION
                                         THEN tr[3] ELSE @]
                 sq == [b.squares EXCEPT ![to] = moved, ![from] = left]
                 b1 == [b EXCEPT !.squares = sq]
                 b2 == IF swap_color
                       THEN [b1 EXCEPT !.color_to_move =
                                opposite(b1.color_to_move)]
                       ELSE b1
                 b3 == IF sq[to].p_type = KING
                       THEN [b2 EXCEPT !.kings_positions =
                                kp_insert(b2.kings_positions, sq[to].color, to)]
                       ELSE b2
             IN  [b3 EXCEPT !.last_transition = <<from, to, DEFAULT_PROMOTION>>]

\* make_move that never overrides the kind of the moved piece
make_move_keeps_kind(b, tr, swap_color) ==
    LET from == tr[1]
        to == tr[2]
    IN  IF to = OUT_OF_BOARD
        THEN [b EXCEPT !.squares[from] = PieceDefault]
        ELSE LET moved == [b.squares[from] EXCEPT !.has_moved = TRUE]
                 sq == [b.squares EXCEPT ![to] = moved, ![from] = PieceDefault]
                 b1 == [b EXCEPT !.squares = sq]
                 b2 == IF swap_color
                       THEN [b1 EXCEPT !.color_to_move =
                                opposite(b1.color_to_move)]
                       ELSE b1
                 b3 == IF sq[to].p_type = KING
                       THEN [b2 EXCEPT !.kings_positions =
                                kp_insert(b2.kings_positions, sq[to].color, to)]
                       ELSE b2
             IN  [b3 EXCEPT !.last_transition = <<from, to, DEFAULT_PROMOTION>>]

\* make_move whose removal branch (to = OUT_OF_BOARD) leaves the piece on
\* its square
make_move_keeps_removed(b, tr, swap_color) ==
    LET from == tr[1]
        to == tr[2]
    IN  IF to = OUT_OF_BOARD
        THEN b
        ELSE LET moved == [b.squares[from] EXCEPT
                              !.has_moved = TRUE,
                              !.p_type = IF tr[3] /= DEFAULT_PROMOTION
                                         THEN tr[3] ELSE @]
                 sq == [b.squares EXCEPT ![to] = moved, ![from] = PieceDefault]
                 b1 == [b EXCEPT !.squares = sq]
                 b2 == IF swap_color
                       THEN [b1 EXCEPT !.color_to_move =
                                opposite(b1.color_to_move)]
                       ELSE b1
                 b3 == IF sq[to].p_type = KING
                       THEN [b2 EXCEPT !.kings_positions =
                                kp_insert(b2.kings_positions, sq[to].color, to)]
                       ELSE b2
             IN  [b3 EXCEPT !.last_transition = <<from, to, DEFAULT_PROMOTION>>]

\* Board::make_move
make_move(b, tr, swap_color) ==
    LET from == tr[1]
        to == tr[2]
    IN  IF to = OUT_OF_BOARD
        THEN [b EXCEPT !.squares[from] = PieceDefault]
        ELSE LET moved == [b.squares[from] EXCEPT
                              !.has_moved = TRUE,
                              !.p_type = IF tr[3] /= DEFAULT_PROMOTION
                                         THEN tr[3] ELSE @]
                 sq == [b.squares EXCEPT ![to] = moved, ![from] = PieceDefault]
                 b1 == [b EXCEPT !.squares = sq]
                 b2 == IF swap_color THEN swap_color_to_move(b1) ELSE b1
                 b3 == IF sq[to].p_type = KING
                       THEN [b2 EXCEPT !.kings_positions =
                                kp_insert(b2.kings_positions, sq[to].color, to)]
                       ELSE b2
             IN  [b3 EXCEPT !.last_transition = TransitionNew(from, to)]

\* validate_castle looking at the king's has_moved only
validate_castle_king_only(b, king_pos, rook_pos) ==
    IF ~b.squares[king_pos].has_moved
    THEN \A inx \in (Min(king_pos, rook_pos) + 1)..(Max(king_pos, rook_pos) - 1) :
            is_none(b.squares[inx])
    ELSE FALSE

\* Board::validate_castle
validate_castle(b, king_pos, rook_pos) ==
    IF ~b.squares[king_pos].has_moved /\ ~b.squares[rook_pos].has_moved
    THEN \A inx \in (Min(king_pos, rook_pos) + 1)..(Max(king_pos, rook_pos) - 1) :
            is_none(b.squares[inx])
    ELSE FALSE

(***************************************************************************)
(* Legality.  A check result is [err, aux, ovf, panic]: err = "" for Ok,   *)
(* aux the additional transition (TransitionDefault for None), panic       *)
(* whether the call panicked (index out of bounds, unwrap of None), ovf    *)
(* whether an unsigned subtraction wrapped below zero on the way (a build  *)
(* with overflow checks panics there; a build without them carries on with *)
(* the wrapped value).                                                     *)
(***************************************************************************)

OkNone == [err |-> "", aux |-> TransitionDefault, ovf |-> FALSE, panic |-> FALSE]
Err(e) == [err |-> e, aux |-> TransitionDefault, ovf |-> FALSE, panic |-> FALSE]

\* usize a - b.  A wrapped result (a - b + 2^64) is kept as the negative
\* number a - b: it is only ever compared for equality with indices 0..64,
\* which it never equals either way, or used as an index, which panics.
usize_sub(a, b) == a - b

\* check_en_passant without the comparison with last_transition: an
\* opposite pawn beside the mover can be captured at any time
check_en_passant_any_time(last_transition, piece, from, to, transition, squares) ==
    IF transition \in {7, -7, -9, 9} /\ is_none(squares[to])
    THEN LET check_opposite_pawn_position ==
                 IF transition > 0 THEN usize_sub(to, 8) ELSE to + 8
         IN  IF ~InBoard(check_opposite_pawn_position)
             THEN [OkNone EXCEPT !.panic = TRUE]
             ELSE
             LET c_piece == squares[check_opposite_pawn_position]
             IN  IF c_piece.p_type /= PAWN
                 THEN OkNone
                 ELSE IF c_piece.color /= opposite(piece.color)
                 THEN Err("invalid en passant")
                 ELSE [OkNone EXCEPT
                          !.aux = remove_piece(check_opposite_pawn_position)]
    ELSE OkNone

\* Board::check_en_passant
check_en_passant(last_transition, piece, from, to, transition, squares) ==
    IF transition \in {7, -7, -9, 9} /\ is_none(squares[to])
    THEN LET check_opposite_pawn_position ==
                 IF transition > 0 THEN usize_sub(to, 8) ELSE to + 8
             check_opposite_pawn_position_from ==
                 IF transition > 0 THEN to + 8 ELSE usize_sub(to, 8)
             ovf == check_opposite_pawn_position < 0
                    \/ check_opposite_pawn_position_from < 0
         IN  IF ~InBoard(check_opposite_pawn_position)
             THEN [OkNone EXCEPT !.ovf = ovf, !.panic = TRUE]
             ELSE
             LET c_piece == squares[check_opposite_pawn_position]
             IN  IF c_piece.p_type /= PAWN
                 THEN [OkNone EXCEPT !.ovf = ovf]
                 ELSE IF c_piece.color /= opposite(piece.color)
                 THEN [Err("invalid en passant") EXCEPT !.ovf = ovf]
                 ELSE IF last_transition =
                           TransitionNew(check_opposite_pawn_position_from,
                                         check_opposite_pawn_position)
                 THEN [OkNone EXCEPT
                          !.aux = remove_piece(check_opposite_pawn_position),
                          !.ovf = ovf]
                 ELSE [OkNone EXCEPT !.ovf = ovf]
    ELSE OkNone

\* One pass of the inner loop of is_move_possible for unit step m: the walk
\* from + m, from + 2m, ... stays inside 0..63 and so meets `to` exactly when
\* to - from is a positive multiple of m.  "reached" / "blocked" / "miss".
walk(m, from, to, squares) ==
    LET d == to - from
    IN  IF d * m > 0 /\ d % (IF m > 0 THEN m ELSE -m) = 0
        THEN IF \E i \in 1..((d \div m) - 1) : ~is_none(squares[from + i * m])
             THEN "blocked"
             ELSE "reached"
        ELSE "miss"

\* The loop over get_sliding_moves, in the code's order: the first unit step
\* whose walk meets `to` decides.
RECURSIVE sliding_blocked(_, _, _, _)
sliding_blocked(dirs, from, to, squares) ==
    IF dirs = <<>> THEN FALSE
    ELSE LET w == walk(Head(dirs), from, to, squares)
         IN  IF w = "blocked" THEN TRUE
             ELSE IF w = "reached" THEN FALSE
             ELSE sliding_blocked(Tail(dirs), from, to, squares)

\* Board::is_move_possible
is_move_possible(last_transition, piece, from, to, squares) ==
    LET available_moves == get_moves(piece, from)
        transition == to - from
    IN  IF transition \notin available_moves
        THEN Err("that piece cannot make moves like that!")
        ELSE IF piece.p_type = PAWN
        THEN IF transition \in {8, -8} /\ ~is_none(squares[to])
             THEN Err("pawn cannot move to occupied place")
             ELSE check_en_passant(last_transition, piece, from, to,
                                   transition, squares)
        ELSE IF is_sliding(piece)
                /\ sliding_blocked(get_sliding_moves(piece), from, to, squares)
        THEN Err("your move is blocked")
        ELSE OkNone

\* Board::is_check (kings_positions has an entry for color: see validate_move)
is_check(last_transition, color, squares_copy, kings_positions) ==
    LET king_pos == kings_positions[color]
    IN  \E inx \in Squares :
            /\ color /= squares_copy[inx].color
            /\ ~is_none(squares_copy[inx])
            /\ is_move_possible(last_transition, squares_copy[inx], inx,
                                king_pos, squares_copy).err = ""

\* The scratch position validate_move builds for its check test
simulate(b, piece, from, to) ==
    [squares |-> [b.squares EXCEPT ![from] = PieceDefault, ![to] = piece],
     kings_positions |-> IF piece.p_type = KING
                         THEN kp_insert(b.kings_positions, piece.color, to)
                         ELSE b.kings_positions]

\* A result of validate_move.  [err, aux, ovf, panic, board]: board is the
\* live position after the call (validate_move takes &mut self).
VmResult(err, aux, ovf, panic, b) ==
    [err |-> err, aux |-> aux, ovf |-> ovf, panic |-> panic, board |-> b]

\* validate_move running its check test on the live board without putting
\* the pieces back when it rejects
validate_check_in_place(b, piece, r, sim) ==
    IF piece.color \notin DOMAIN sim.kings_positions
    THEN VmResult("", TransitionDefault, r.ovf, TRUE, b)
    ELSE IF is_check(b.last_transition, piece.color, sim.squares,
                     sim.kings_positions)
    THEN VmResult("there will be check after a move", TransitionDefault,
                  r.ovf, FALSE,
                  [b EXCEPT !.squares = sim.squares,
                            !.kings_positions = sim.kings_positions])
    ELSE VmResult("", r.aux, r.ovf, FALSE, b)

\* validate_move from its check test on (board.rs 468-482): sim is the
\* scratch position, r the result of is_move_possible
validate_check(b, piece, r, sim) ==
    IF piece.color \notin DOMAIN sim.kings_positions
    THEN VmResult("", TransitionDefault, r.ovf, TRUE, b)
    ELSE IF is_check(b.last_transition, piece.color, sim.squares,
                     sim.kings_positions)
    THEN VmResult("there will be check after a move", TransitionDefault,
                  r.ovf, FALSE, b)
    ELSE VmResult("", r.aux, r.ovf, FALSE, b)

\* validate_move after is_move_possible returned r (board.rs 451-470)
validate_possible(b, piece, from, to, r) ==
    IF r.panic \/ r.err /= ""
    THEN VmResult(r.err, TransitionDefault, r.ovf, r.panic, b)
    ELSE validate_check(b, piece, r, simulate(b, piece, from, to))

\* a validate_move that does not ask whose move it is
validate_move_any_turn(b, from, to) ==
    IF ~InBoard(from) \/ ~InBoard(to)
    THEN VmResult("", TransitionDefault, FALSE, TRUE, b)
    ELSE IF \/ is_none(b.squares[from])
            \/ (~is_none(b.squares[to])
                /\ b.squares[from].color = b.squares[to].color)
    THEN VmResult("piece is none, position_to is occupied by the same color piece or it is not your move",
                  TransitionDefault, FALSE, FALSE, b)
    ELSE validate_possible(b, b.squares[from], from, to,
                           is_move_possible(b.last_transition, b.squares[from],
                                            from, to, b.squares))

\* Board::validate_move
validate_move(b, from, to) ==
    IF ~InBoard(from) \/ ~InBoard(to)
    THEN VmResult("", TransitionDefault, FALSE, TRUE, b)
    ELSE IF \/ is_none(b.squares[from])
            \/ (~is_none(b.squares[to])
                /\ b.squares[from].color = b.squares[to].color)
            \/ b.color_to_move /= b.squares[from].color
    THEN VmResult("piece is none, position_to is occupied by the same color piece or it is not your move",
                  TransitionDefault, FALSE, FALSE, b)
    ELSE validate_possible(b, b.squares[from], from, to,
                           is_move_possible(b.last_transition, b.squares[from],
                                            from, to, b.squares))

(***************************************************************************)
(* Notation translation                                                    *)
(***************************************************************************)

\* the 64 indices in scan order
AllSquares == [i \in 1..64 |-> i - 1]

\* Board::translate_position: [val, panic]
\* (split_at(1) panics on an empty string, to_digit(10).unwrap() on a
\* non-digit; a negative sum cast to usize is kept negative: off the board)
RECURSIVE row_sum(_)
row_sum(row) ==
    IF row = <<>> THEN 0
    ELSE (to_digit(Head(row)) - 1) * 8 + row_sum(Tail(row))

translate_position(pos) ==
    IF pos = <<>> THEN [val |-> 0, panic |-> TRUE]
    ELSE LET col == pos[1]
             row == Tail(pos)
         IN  IF \E i \in 1..Len(row) : ~is_digit(row[i])
             THEN [val |-> 0, panic |-> TRUE]
             ELSE [val |-> letter_to_i32(col) + row_sum(row), panic |-> FALSE]

\* Board::find_piece_places: [places, ovf].  additional_info is <<>> or one
\* character.  A rank digit 0 makes row - 1 wrap.
find_piece_places(b, piece_type, color, additional_info) ==
    LET matches(i) == b.squares[i].p_type = piece_type
                      /\ b.squares[i].color = color
        info == additional_info[1]
        row == to_digit(info)
        column == letter_to_i32(info)
        keep(i) ==
            /\ matches(i)
            /\ IF Len(additional_info) = 1
               THEN IF is_digit(info)
                    THEN IF row = 0 THEN 0 < i
                         ELSE (row - 1) * 8 >= i /\ row * 8 < i
                    ELSE i \in {column + 8 * (x - 1) : x \in 1..8}
               ELSE TRUE
    IN  [places |-> SelectSeq(AllSquares, keep),
         ovf |-> /\ Len(additional_info) = 1
                 /\ is_digit(info)
                 /\ row = 0
                 /\ \E i \in Squares : matches(i)]

\* find_pawn_places scanning the file from rank 7 down to rank 1
find_pawn_places_from_top(b, line) ==
    LET inx == Ascii(line) - Ascii("a")
        keep(index) == b.squares[index].p_type = PAWN
                       /\ b.squares[index].color = b.color_to_move
    IN  SelectSeq([i \in 1..7 |-> inx + 8 * (7 - i)], keep)

\* Board::find_pawn_places
find_pawn_places(b, line) ==
    LET inx == Ascii(line) - Ascii("a")
        keep(index) == b.squares[index].p_type = PAWN
                       /\ b.squares[index].color = b.color_to_move
    IN  SelectSeq([i \in 1..7 |-> inx + 8 * (i - 1)], keep)

\* PieceType::from_sign: the promotion letter after '='
from_sign(p) ==
    CASE p = <<"Q">> -> QUEEN
      [] p = <<"R">> -> ROOK
      [] p = <<"B">> -> BISHOP
      [] p = <<"N">> -> KNIGHT
      [] p = <<"K">> -> KING
      [] OTHER -> NONE

pawn_letters == {"a", "b", "c", "d", "e", "f", "g", "h"}

\* m.replace("x", "").replace("+", "").replace("#", "")
strip_decorations(m) ==
    LET keep(c) == c \notin {"x", "+", "#"}
    IN  SelectSeq(m, keep)

TrErr(e) == [err |-> e, panic |-> FALSE, ovf |-> FALSE, transitions |-> <<>>]
TrPanic(ovf) == [err |-> "", panic |-> TRUE, ovf |-> ovf, transitions |-> <<>>]
TrCastle(king, rook) ==
    [err |-> "", panic |-> FALSE, ovf |-> FALSE, transitions |-> <<king, rook>>]

\* the tail of translate_pgn_move (board.rs 335-338): one transition per
\* place; direction is the result of translate_position
TrOk(places, direction, promotion, ovf) ==
    IF direction.panic THEN TrPanic(ovf)
    ELSE [err |-> "", panic |-> FALSE, ovf |-> ovf,
          transitions |-> [i \in 1..Len(places) |->
                             new_with_promotion(places[i], direction.val,
                                                promotion)]]

\* the position of the first "=" of m
first_eq(m) ==
    CHOOSE i \in 1..Len(m) : m[i] = "=" /\ \A j \in 1..(i - 1) : m[j] /= "="

\* the pawn branch (board.rs 290-302) for the token m, promotion split off
translate_pawn(b, m, promotion) ==
    TrOk(find_pawn_places(b, m[1]),
         IF Len(m) = 3 THEN translate_position(Tail(m))
         ELSE translate_position(m),
         promotion, FALSE)

\* the tail of the piece branch (board.rs 332-333)
translate_found(found, second) ==
    TrOk(found.places, translate_position(second), NONE, found.ovf)

\* the piece branch (board.rs 304-333): first the piece letter, second the
\* rest of the token
translate_piece(b, first, second) ==
    IF first \notin {"N", "Q", "B", "R", "K"}
    THEN TrErr("invalid piece")
    ELSE IF first \in {"N", "R"} /\ Len(second) /= 2
    THEN IF second = <<>> THEN TrPanic(FALSE)
         ELSE translate_found(
                  find_piece_places(b, IF first = "N" THEN KNIGHT ELSE ROOK,
                                    b.color_to_move, <<second[1]>>),
                  Tail(second))
    ELSE translate_found(
             find_piece_places(b,
                               CASE first = "N" -> KNIGHT
                                 [] first = "Q" -> QUEEN
                                 [] first = "B" -> BISHOP
                                 [] first = "R" -> ROOK
                                 [] first = "K" -> KING,
                               b.color_to_move, <<>>),
             second)

\* translate_pgn_move after the decorations are stripped (board.rs 271-338)
translate_stripped(b, m) ==
    IF m /= <<>> /\ m[1] \in pawn_letters
    THEN IF InSeq(m, "=")
         THEN translate_pawn(b, SubSeq(m, 1, first_eq(m) - 1),
                             from_sign(Tail_from(m, first_eq(m) + 1)))
         ELSE translate_pawn(b, m, NONE)
    ELSE IF m = <<>> THEN TrPanic(FALSE)
    ELSE translate_piece(b, m[1], Tail(m))

\* Board::translate_pgn_move: [err, panic, ovf, transitions]
translate_pgn_move(b, m) ==
    IF m = <<"O", "-", "O">>
    THEN IF b.color_to_move = BLACK
         THEN TrCastle(TransitionNew(60, 62), TransitionNew(63, 61))
         ELSE TrCastle(TransitionNew(4, 6), TransitionNew(7, 5))
    ELSE IF m = <<"O", "-", "O", "-", "O">>
    THEN IF b.color_to_move = BLACK
         THEN TrCastle(TransitionNew(60, 58), TransitionNew(56, 59))
         ELSE TrCastle(TransitionNew(4, 2), TransitionNew(0, 3))
    ELSE translate_stripped(b, strip_decorations(m))

(***************************************************************************)
(* Move orchestration                                                      *)
(***************************************************************************)

\* A result of make_pgn_move: [ret, panic, ovf, board, applied]; applied
\* lists the transitions given to make_move, in order.
PgnResult(ret, panic, ovf, b, applied) ==
    [ret |-> ret, panic |-> panic, ovf |-> ovf, board |-> b,
     applied |-> applied]

RECURSIVE try_transitions(_, _, _)

\* One pass of the candidate loop with v the result of validate_move for
\* the first candidate (board.rs 193-205)
try_validated(ts, ovf, v) ==
    IF v.panic
    THEN PgnResult("", TRUE, ovf \/ v.ovf, v.board, <<>>)
    ELSE IF v.err = ""
    THEN IF is_default(v.aux)
         THEN PgnResult("Ok", FALSE, ovf \/ v.ovf,
                        make_move(v.board, Head(ts), TRUE), <<Head(ts)>>)
         ELSE PgnResult("Ok", FALSE, ovf \/ v.ovf,
                        make_move(make_move(v.board, v.aux, FALSE),
                                  Head(ts), TRUE),
                        <<v.aux, Head(ts)>>)
    ELSE try_transitions(v.board, Tail(ts), ovf \/ v.ovf)

\* The candidate loop of make_pgn_move (board.rs 192-207): the first
\* transition validate_move accepts is applied, after its additional one.
try_transitions(b, ts, ovf) ==
    IF ts = <<>>
    THEN PgnResult("invalid move", FALSE, ovf, b, <<>>)
    ELSE try_validated(ts, ovf, validate_move(b, Head(ts)[1], Head(ts)[2]))

\* make_pgn_move after translate_pgn_move returned tr (board.rs 172-207)
make_translated(b, tr) ==
    IF tr.panic
    THEN PgnResult("", TRUE, tr.ovf, b, <<>>)
    ELSE IF tr.err /= ""
    THEN PgnResult(tr.err, FALSE, tr.ovf, b, <<>>)
    ELSE IF /\ Len(tr.transitions) = 2
            /\ b.squares[tr.transitions[1][1]].p_type = KING
            /\ b.squares[tr.transitions[2][1]].p_type = ROOK
    THEN IF validate_castle(b, tr.transitions[1][1], tr.transitions[2][1])
         THEN PgnResult("Ok", FALSE, tr.ovf,
                        swap_color_to_move(
                            make_move(make_move(b, tr.transitions[1], FALSE),
                                      tr.transitions[2], FALSE)),
                        tr.transitions)
         ELSE PgnResult("invalid castle", FALSE, tr.ovf, b, <<>>)
    ELSE try_transitions(b, tr.transitions, tr.ovf)

\* Board::make_pgn_move
make_pgn_move(b, m) == make_translated(b, translate_pgn_move(b, m))

(***************************************************************************)
(* Position load                                                           *)
(***************************************************************************)

\* piece_from_char with the entries of 'k' and 'q' exchanged
piece_from_char_kq(c) ==
    CASE c = "r" -> ROOK
      [] c = "k" -> QUEEN
      [] c = "p" -> PAWN
      [] c = "q" -> KING
      [] c = "b" -> BISHOP
      [] c = "n" -> KNIGHT
      [] OTHER -> NONE

\* piece_from_char of read_fen; NONE for a character the map lacks
piece_from_char(c) ==
    CASE c = "r" -> ROOK
      [] c = "k" -> KING
      [] c = "p" -> PAWN
      [] c = "q" -> QUEEN
      [] c = "b" -> BISHOP
      [] c = "n" -> KNIGHT
      [] OTHER -> NONE

\* the loop of read_fen (board.rs 84-115): [squares, kings_positions, panic]
RECURSIVE read_fen_loop(_, _, _, _, _)
read_fen_loop(fen, rank, file, sq, kp) ==
    IF fen = <<>> THEN [squares |-> sq, kings_positions |-> kp, panic |-> FALSE]
    ELSE LET c == Head(fen)
         IN  IF c = "/" THEN read_fen_loop(Tail(fen), rank - 1, 0, sq, kp)
             ELSE IF is_digit(c)
             THEN read_fen_loop(Tail(fen), rank, file + to_digit(c), sq, kp)
             ELSE LET color == IF is_lowercase(c) THEN BLACK ELSE WHITE
                      inx == rank * 8 + file
                      kind == piece_from_char(to_ascii_lowercase(c))
                  IN  IF kind = NONE \/ ~InBoard(inx)
                      THEN [squares |-> sq, kings_positions |-> kp,
                            panic |-> TRUE]
                      ELSE read_fen_loop(
                               Tail(fen), rank, file + 1,
                               [sq EXCEPT ![inx] = PieceNew(kind, color)],
                               IF kind = KING THEN kp_insert(kp, color, inx)
                               ELSE kp)

\* a read_fen that also starts a new game: WHITE to move, no last move
read_fen_new_game(b, fen) ==
    LET r == read_fen_loop(fen, 7, 0, [i \in Squares |-> PieceDefault], <<>>)
    IN  [board |-> [b EXCEPT !.squares = r.squares,
                             !.kings_positions = r.kings_positions,
                             !.color_to_move = WHITE,
                             !.last_transition = TransitionDefault],
         panic |-> r.panic]

\* a read_fen that places the pieces of fen over what the board holds
read_fen_incremental(b, fen) ==
    LET r == read_fen_loop(fen, 7, 0, b.squares, b.kings_positions)
    IN  [board |-> [b EXCEPT !.squares = r.squares,
                             !.kings_positions = r.kings_positions],
         panic |-> r.panic]

\* Board::read_fen: [board, panic]
read_fen(b, fen) ==
    LET r == read_fen_loop(fen, 7, 0, [i \in Squares |-> PieceDefault], <<>>)
    IN  [board |-> [b EXCEPT !.squares = r.squares,
                             !.kings_positions = r.kings_positions],
         panic |-> r.panic]

\* const FEN (board.rs 47)
FEN == <<"r", "n", "b", "q", "k", "b", "n", "r", "/", "p", "p", "p", "p", "p", "p", "p", "p", "/", "8", "/", "8", "/", "8", "/", "8", "/", "P", "P", "P", "P", "P", "P", "P", "P", "/", "R", "N", "B", "Q", "K", "B", "N", "R">>

\* Board::allow_debug
allow_debug(b) == [b EXCEPT !.debug = TRUE]

\* Board::default
BoardDefault ==
    read_fen([squares |-> [i \in Squares |-> PieceDefault],
              color_to_move |-> WHITE,
              kings_positions |-> <<>>,
              debug |-> FALSE,
              last_transition |-> TransitionDefault], FEN).board

(***************************************************************************)
(* The state machine.  The five fields of struct Board, and what the       *)
(* caller of the last operation observed: the position before the call     *)
(* (pre), the call with its result (call), the number of half-moves        *)
(* applied so far (moves) and whether the replay is still running; and the *)
(* locals of read_pgn (pgn): the text not yet consumed and its counters.   *)
(***************************************************************************)

VARIABLES squares, color_to_move, kings_positions, debug, last_transition,
          pre, call, moves, status, pgn

vars == <<squares, color_to_move, kings_positions, debug, last_transition,
          pre, call, moves, status, pgn>>

\* the live Board
Live == [squares |-> squares,
         color_to_move |-> color_to_move,
         kings_positions |-> kings_positions,
         debug |-> debug,
         last_transition |-> last_transition]

SetLive(b) ==
    /\ squares' = b.squares
    /\ color_to_move' = b.color_to_move
    /\ kings_positions' = b.kings_positions
    /\ debug' = b.debug
    /\ last_transition' = b.last_transition

NoCall == [op |-> "default", arg |-> <<>>, ret |-> "", applied |-> <<>>]

\* the locals of read_pgn while no read_pgn is running
NoPgn == [test |-> "", text |-> <<>>, game |-> <<>>, general_counter |-> 1,
          color_counter |-> 0, ret |-> ""]

\* let mut b = Board::default();
Init ==
    /\ squares = BoardDefault.squares
    /\ color_to_move = BoardDefault.color_to_move
    /\ kings_positions = BoardDefault.kings_positions
    /\ debug = BoardDefault.debug
    /\ last_transition = BoardDefault.last_transition
    /\ pre = BoardDefault
    /\ call = NoCall
    /\ moves = 0
    /\ status = "running"
    /\ pgn = NoPgn

\* What the caller of make_pgn_move(m) sees when the call computed r.  A
\* build with overflow checks panics where an unsigned subtraction wraps; both
\* builds are outcomes.  Every panic of this path precedes the first write to
\* the board.
PgnOutcome(m, r) ==
    \E overflow_checks \in (IF r.ovf THEN BOOLEAN ELSE {FALSE}) :
        /\ SetLive(IF r.panic \/ overflow_checks THEN Live ELSE r.board)
        /\ pre' = Live
        /\ call' = [op |-> "make_pgn_move", arg |-> m,
                    ret |-> IF r.panic \/ overflow_checks THEN "panic"
                            ELSE r.ret,
                    applied |-> IF r.panic \/ overflow_checks THEN <<>>
                                ELSE r.applied]
        /\ moves' = IF ~(r.panic \/ overflow_checks) /\ r.ret = "Ok"
                    THEN moves + 1 ELSE moves
        /\ status' = IF ~(r.panic \/ overflow_checks) /\ r.ret = "Ok"
                     THEN "running" ELSE "stopped"

\* One iteration of the loop of read_pgn (board.rs 147-150): the next token
\* goes to make_pgn_move; an error ends the replay.
MakePgnMove(m, bound) ==
    /\ status = "running"
    /\ moves < bound
    /\ PgnOutcome(m, make_pgn_move(Live, m))
    /\ UNCHANGED pgn

\* What the caller of validate_move(from, to) sees when the call computed v
ValidateOutcome(from, to, v) ==
    \E overflow_checks \in (IF v.ovf THEN BOOLEAN ELSE {FALSE}) :
        /\ SetLive(v.board)
        /\ pre' = Live
        /\ call' = [op |-> "validate_move", arg |-> <<from, to>>,
                    ret |-> IF v.panic \/ overflow_checks THEN "panic"
                            ELSE IF v.err = "" THEN "Ok" ELSE v.err,
                    applied |-> IF v.panic \/ overflow_checks \/ v.err /= ""
                                   \/ is_default(v.aux)
                                THEN <<>> ELSE <<v.aux>>]
        /\ moves' = moves
        /\ status' = "stopped"
        /\ UNCHANGED pgn

\* A direct call of validate_move(from, to), as the evaluator makes on a
\* clone of the board that it then drops (evaluation.rs 183, 196).
ValidateMoveCall(from, to) ==
    /\ status = "running"
    /\ ValidateOutcome(from, to, validate_move(Live, from, to))

\* A direct call of validate_castle(king_pos, rook_pos) (board.rs 788-808)
ValidateCastleCall(king_pos, rook_pos) ==
    /\ status = "running"
    /\ call' = [op |-> "validate_castle", arg |-> <<king_pos, rook_pos>>,
                ret |-> IF validate_castle(Live, king_pos, rook_pos)
                        THEN "true" ELSE "false",
                applied |-> <<>>]
    /\ pre' = Live
    /\ moves' = moves
    /\ status' = "stopped"
    /\ UNCHANGED <<squares, color_to_move, kings_positions, debug,
                   last_transition, pgn>>

(***************************************************************************)
(* Games from the standard position around en passant and check.           *)
(***************************************************************************)

MaxMoves == 6

O_O == <<"O", "-", "O">>
O_O_O == <<"O", "-", "O", "-", "O">>

Tokens ==
    { <<"e", "4">>, <<"e", "5">>, <<"e", "x", "d", "6">>,
      <<"e", "x", "d", "5">>, <<"h", "3">>, <<"c", "4">>,
      <<"Q", "h", "5", "+">>,
      <<"d", "5">>, <<"a", "6">>, <<"d", "4">>, <<"d", "x", "c", "3">>,
      <<"f", "5">> }

\* validate_move probes: e2-e4, e7-e5, e1-e2, e4xd5, e5xd6, d4xc3, a7-a6
ProbePairs == { <<12, 28>>, <<52, 36>>, <<4, 12>>, <<28, 35>>, <<36, 43>>,
                <<27, 18>>, <<48, 40>> }

PgnMove == \E m \in Tokens : MakePgnMove(m, MaxMoves)

Probe == \E p \in ProbePairs : ValidateMoveCall(p[1], p[2])

Next == PgnMove \/ Probe

Spec == Init /\ [][Next]_vars

(***************************************************************************)
(* Properties                                                              *)
(***************************************************************************)

\* the four fields of the position a move may change
Position(b) == <<b.squares, b.kings_positions, b.color_to_move,
                 b.last_transition>>

\* the last call was make_pgn_move and applied an en passant capture
AppliedEnPassant ==
    /\ call.op = "make_pgn_move"
    /\ call.ret = "Ok"
    /\ Len(call.applied) = 2
    /\ call.applied[1][2] = OUT_OF_BOARD

C2_RejectedMoveKeepsPosition ==
    /\ call.op = "validate_move" => Position(Live) = Position(pre)
    /\ (call.op = "make_pgn_move" /\ call.ret /= "Ok") =>
          Position(Live) = Position(pre)

\* C2 witness: validate_move built its scratch position and rejected the
\* move for the check it found there
C2_Witness ==
    /\ call.op = "validate_move"
    /\ call.ret = "there will be check after a move"
    /\ moves >= 3


\* The squares diagonally ahead of a pawn of the given color on `from`:
\* one rank forward, one file to either side
DiagonalTargets(from, color) ==
    { to \in Squares :
        /\ to \div 8 = (from \div 8) + (IF color = WHITE THEN 1 ELSE -1)
        /\ (to % 8) - (from % 8) \in {-1, 1} }

\* The square on the destination's file and the mover's own rank
EnPassantVictim(from, to) == 8 * (from \div 8) + (to % 8)

\* The pawn on v is of the color opposite to mover_color and the last move
\* was its two-square advance ending on v
JustAdvancedTwo(v, mover_color) ==
    /\ squares[v].p_type = PAWN
    /\ squares[v].color = opposite(mover_color)
    /\ last_transition =
          TransitionNew(IF mover_color = WHITE THEN v + 16 ELSE v - 16, v)

\* The additional transition check_en_passant answers for from -> to
EnPassantGrant(from, to) ==
    check_en_passant(last_transition, squares[from], from, to, to - from,
                     squares).aux

EnPassantGrantedIffJustAdvanced ==
    \A from \in Squares :
        squares[from].p_type = PAWN =>
            \A to \in DiagonalTargets(from, squares[from].color) :
                is_none(squares[to]) =>
                    EnPassantGrant(from, to) =
                        IF JustAdvancedTwo(EnPassantVictim(from, to),
                                           squares[from].color)
                        THEN remove_piece(EnPassantVictim(from, to))
                        ELSE TransitionDefault

\* a step that applies an en passant capture follows, with nothing in
\* between, the successful move that advanced the captured pawn two squares
EnPassantOnlyNextHalfMove ==
    AppliedEnPassant' =>
        /\ call.op = "make_pgn_move"
        /\ call.ret = "Ok"
        /\ squares[call'.applied[1][1]].p_type = PAWN
        /\ call.applied[Len(call.applied)][2] = call'.applied[1][1]
        /\ call.applied[Len(call.applied)][1] - call'.applied[1][1]
              \in {16, -16}

\* C8: for a pawn's diagonal move onto an empty square, check_en_passant
\* answers the removal of the pawn on the destination file and the mover's
\* rank exactly when that square holds a pawn of the opposite color and
\* last_transition is that pawn's two-square advance ending there; so an en
\* passant capture is only ever applied on the half-move right after it.
C8_EnPassantGrant ==
    []EnPassantGrantedIffJustAdvanced /\ [][EnPassantOnlyNextHalfMove]_vars

\* C8 witness: BLACK captured en passant (d4xc3 removing the pawn on c4)
C8_Witness ==
    /\ AppliedEnPassant
    /\ call.applied = <<remove_piece(26), TransitionNew(27, 18)>>

\* C9: once an en passant capture is applied, the captured pawn's square is
\* empty, the capturing pawn stands on the destination and has left its
\* source, every other square is as before, and the turn passed once.
C9_EnPassantEffect ==
    AppliedEnPassant =>
        LET v == call.applied[1][1]
            from == call.applied[2][1]
            to == call.applied[2][2]
        IN  /\ pre.squares[from].p_type = PAWN
            /\ pre.squares[v].p_type = PAWN
            /\ pre.squares[v].color = opposite(pre.squares[from].color)
            /\ is_none(pre.squares[to])
            /\ squares[v] = PieceDefault
            /\ squares[from] = PieceDefault
            /\ squares[to] = [pre.squares[from] EXCEPT !.has_moved = TRUE]
            /\ \A s \in Squares \ {v, from, to} : squares[s] = pre.squares[s]
            /\ color_to_move = opposite(pre.color_to_move)
            /\ (color_to_move = WHITE) <=> (moves % 2 = 0)

\* C9 witness: WHITE captured en passant (e5xd6 removing the pawn on d5)
C9_Witness ==
    /\ AppliedEnPassant
    /\ call.applied = <<remove_piece(35), TransitionNew(36, 43)>>
    /\ is_none(squares[35])

\* C10: a pawn's diagonal move (offset +-7 or +-9) onto an empty square is
\* accepted only together with an en passant removal.
C10_DiagonalOntoEmptyNeedsEnPassant ==
    /\ (call.op = "make_pgn_move" /\ call.ret = "Ok") =>
          LET t == call.applied[Len(call.applied)]
          IN  (/\ pre.squares[t[1]].p_type = PAWN
               /\ t[2] - t[1] \in {7, -7, 9, -9}
               /\ is_none(pre.squares[t[2]]))
              => (Len(call.applied) = 2 /\ call.applied[1][2] = OUT_OF_BOARD)
    /\ (/\ call.op = "validate_move"
        /\ call.ret = "Ok"
        /\ pre.squares[call.arg[1]].p_type = PAWN
        /\ call.arg[2] - call.arg[1] \in {7, -7, 9, -9}
        /\ is_none(pre.squares[call.arg[2]]))
       => (Len(call.applied) = 1 /\ call.applied[1][2] = OUT_OF_BOARD)

(***************************************************************************)
(* Games from the standard position in which the WHITE king walks to g5    *)
(* behind its pawn on e5 while the BLACK queen comes to a5 and may then    *)
(* take on g5.                                                             *)
(***************************************************************************)

MaxPinMoves == 14

PinTokens ==
    { <<"e", "4">>, <<"e", "5">>, <<"K", "e", "2">>, <<"K", "f", "3">>,
      <<"K", "g", "4">>, <<"K", "g", "5">>, <<"e", "x", "d", "6">>,
      <<"c", "6">>, <<"Q", "a", "5">>, <<"g", "6">>, <<"a", "6">>,
      <<"b", "6">>, <<"d", "5">>, <<"Q", "x", "g", "5">> }

PinMove == \E m \in PinTokens : MakePgnMove(m, MaxPinMoves)

NextPin == PinMove

SpecPin == Init /\ [][NextPin]_vars

\* C3: after a make_pgn_move that returned Ok for a token other than a
\* castling one, no piece of the opponent has a move onto the square of the
\* mover's king that is_move_possible accepts in the resulting position.
C3_KingSafeAfterMove ==
    (/\ call.op = "make_pgn_move"
     /\ call.ret = "Ok"
     /\ call.arg \notin {O_O, O_O_O})
    => ~is_check(last_transition, pre.color_to_move, squares, kings_positions)

(***************************************************************************)
(* Games from the standard position around castling.                       *)
(***************************************************************************)

MaxCastleMoves == 8

CastleGameTokens ==
    { <<"N", "f", "3">>, <<"g", "3">>, <<"B", "g", "2">>, O_O,
      <<"e", "4">>, <<"K", "e", "2">>, <<"h", "4">>, <<"R", "h", "3">>,
      <<"a", "6">>, <<"a", "5">>, <<"N", "f", "6">>, <<"g", "6">>,
      <<"B", "g", "7">> }

CastleMove == \E m \in CastleGameTokens : MakePgnMove(m, MaxCastleMoves)

NextCastle == CastleMove

SpecCastle == Init /\ [][NextCastle]_vars

\* The king's and the rook's transition of castling token m for color
CastlePair(color, m) ==
    IF m = O_O
    THEN IF color = BLACK
         THEN <<TransitionNew(60, 62), TransitionNew(63, 61)>>
         ELSE <<TransitionNew(4, 6), TransitionNew(7, 5)>>
    ELSE IF color = BLACK
         THEN <<TransitionNew(60, 58), TransitionNew(56, 59)>>
         ELSE <<TransitionNew(4, 2), TransitionNew(0, 3)>>

\* In position b, king and rook of color stand unmoved on the home squares
\* of pair and every square between them is empty
CastleAllowed(b, color, pair) ==
    /\ b.squares[pair[1][1]] = PieceNew(KING, color)
    /\ b.squares[pair[2][1]] = PieceNew(ROOK, color)
    /\ \A i \in Squares :
          (Min(pair[1][1], pair[2][1]) < i /\ i < Max(pair[1][1], pair[2][1]))
          => b.squares[i] = PieceDefault

\* the last call was make_pgn_move with a castling token
CastleCall == call.op = "make_pgn_move" /\ call.arg \in {O_O, O_O_O}

\* C5: a castling token given when the king or the rook has moved or a
\* square between them is occupied returns 'invalid castle' and changes
\* nothing, and a castling token that returns Ok applied the king's and the
\* rook's transition and no other move.
C5_InvalidCastleRejected ==
    CastleCall =>
        /\ ~CastleAllowed(pre, pre.color_to_move,
                          CastlePair(pre.color_to_move, call.arg))
           => (call.ret = "invalid castle" /\ Position(Live) = Position(pre))
        /\ call.ret = "Ok"
           => call.applied = CastlePair(pre.color_to_move, call.arg)

\* the live position is position b after color castled with pair
Castled(b, color, pair) ==
    /\ squares[pair[1][2]] = [PieceNew(KING, color) EXCEPT !.has_moved = TRUE]
    /\ squares[pair[2][2]] = [PieceNew(ROOK, color) EXCEPT !.has_moved = TRUE]
    /\ squares[pair[1][1]] = PieceDefault
    /\ squares[pair[2][1]] = PieceDefault
    /\ color \in DOMAIN kings_positions
    /\ kings_positions[color] = pair[1][2]
    /\ \A i \in Squares \ {pair[1][1], pair[1][2], pair[2][1], pair[2][2]} :
          squares[i] = b.squares[i]
    /\ color_to_move = opposite(color)

\* C7: after a castling token returned Ok, king and rook stand on their
\* castled squares with has_moved set, their home squares are empty,
\* kings_positions names the king's new square, no other square changed
\* and the turn passed once.
C7_CastleEffect ==
    (CastleCall /\ call.ret = "Ok")
    => Castled(pre, pre.color_to_move, CastlePair(pre.color_to_move, call.arg))

(***************************************************************************)
(* Positions loaded with read_fen, then probed and played on.              *)
(***************************************************************************)

\* "k7/q7/8/8/8/8/R7/K7": the rook on a2 behind the queen on a7 (board.rs 694)
FenCheck ==
    <<"k", "7", "/", "q", "7", "/", "8", "/", "8", "/", "8", "/", "8", "/",
      "R", "7", "/", "K", "7">>

\* "k7/q7/p7/8/8/8/R7/K7": the same with a pawn on a6 (board.rs 700)
FenBlocked ==
    <<"k", "7", "/", "q", "7", "/", "p", "7", "/", "8", "/", "8", "/", "8",
      "/", "R", "7", "/", "K", "7">>

\* "k7/q7/8/8/8/8/8/Q5K1": a WHITE queen on a1 instead of the rook
FenQueen ==
    <<"k", "7", "/", "q", "7", "/", "8", "/", "8", "/", "8", "/", "8", "/",
      "8", "/", "Q", "5", "K", "1">>

\* "8/8/8/8/8/8/8/R3K3": board.rs 791
FenWhiteLong ==
    <<"8", "/", "8", "/", "8", "/", "8", "/", "8", "/", "8", "/", "8", "/",
      "R", "3", "K", "3">>

\* "8/8/8/8/8/8/8/4K2R": board.rs 793
FenWhiteShort ==
    <<"8", "/", "8", "/", "8", "/", "8", "/", "8", "/", "8", "/", "8", "/",
      "4", "K", "2", "R">>

\* "r3k3/8/8/8/8/8/8": board.rs 795
FenBlackLong ==
    <<"r", "3", "k", "3", "/", "8", "/", "8", "/", "8", "/", "8", "/", "8",
      "/", "8">>

\* "4k2r/8/8/8/8/8/8/8": board.rs 797
FenBlackShort ==
    <<"4", "k", "2", "r", "/", "8", "/", "8", "/", "8", "/", "8", "/", "8",
      "/", "8", "/", "8">>

\* "8/8/8/8/8/8/8/R2PK3": board.rs 800
FenWhiteLongPawn ==
    <<"8", "/", "8", "/", "8", "/", "8", "/", "8", "/", "8", "/", "8", "/",
      "R", "2", "P", "K", "3">>

\* "8/8/8/8/8/8/8/4K1PR": board.rs 802
FenWhiteShortPawn ==
    <<"8", "/", "8", "/", "8", "/", "8", "/", "8", "/", "8", "/", "8", "/",
      "4", "K", "1", "P", "R">>

\* "r2pk3/8/8/8/8/8/8": board.rs 804
FenBlackLongPawn ==
    <<"r", "2", "p", "k", "3", "/", "8", "/", "8", "/", "8", "/", "8", "/",
      "8", "/", "8">>

\* "4kp1r/8/8/8/8/8/8/8": board.rs 806
FenBlackShortPawn ==
    <<"4", "k", "p", "1", "r", "/", "8", "/", "8", "/", "8", "/", "8", "/",
      "8", "/", "8", "/", "8">>

\* "4kr2/8/8/8/8/8/8/4K2R": a BLACK rook on f8 looks down the f-file at f1
FenShortAttacked ==
    <<"4", "k", "r", "2", "/", "8", "/", "8", "/", "8", "/", "8", "/", "8",
      "/", "8", "/", "4", "K", "2", "R">>

\* "4k3/8/8/8/8/8/R7/4K3": the WHITE rook one step from a1
FenRookOffHome ==
    <<"4", "k", "3", "/", "8", "/", "8", "/", "8", "/", "8", "/", "8", "/",
      "R", "7", "/", "4", "K", "3">>

FenLayouts ==
    { FenCheck,
      FenBlocked,
      FenQueen,
      FenWhiteLong,
      FenWhiteShort,
      FenBlackLong,
      FenBlackShort,
      FenWhiteLongPawn,
      FenWhiteShortPawn,
      FenBlackLongPawn,
      FenBlackShortPawn,
      FenShortAttacked,
      FenRookOffHome }

\* b.read_fen(fen) on the live board
ReadFenOutcome(fen, r) ==
    /\ SetLive(r.board)
    /\ pre' = Live
    /\ call' = [op |-> "read_fen", arg |-> fen,
                ret |-> IF r.panic THEN "panic" ELSE "Ok", applied |-> <<>>]
    /\ moves' = moves
    /\ status' = IF r.panic THEN "stopped" ELSE "running"
    /\ UNCHANGED pgn

ReadFen(fen) ==
    /\ status = "running"
    /\ ReadFenOutcome(fen, read_fen(Live, fen))

MaxFenMoves == 2

FenTokens == { <<"e", "4">>, <<"R", "a", "1">>, O_O, O_O_O }

\* a7-b7, a7-b6, a2-a7
FenProbePairs == { <<48, 49>>, <<48, 41>>, <<8, 48>> }

CastleProbePairs == { <<4, 0>>, <<4, 7>>, <<60, 56>>, <<60, 63>> }

FenLoad == \E fen \in FenLayouts : ReadFen(fen)

FenMove == \E m \in FenTokens : MakePgnMove(m, MaxFenMoves)

FenProbe == \E p \in FenProbePairs : ValidateMoveCall(p[1], p[2])

CastleProbe == \E p \in CastleProbePairs : ValidateCastleCall(p[1], p[2])

\* b.allow_debug() on the live board
FenAllowDebug ==
    /\ status = "running"
    /\ ~debug
    /\ SetLive(allow_debug(Live))
    /\ pre' = Live
    /\ call' = [op |-> "allow_debug", arg |-> <<>>, ret |-> "",
                applied |-> <<>>]
    /\ UNCHANGED <<moves, status, pgn>>

NextFen == FenLoad \/ FenMove \/ FenProbe \/ CastleProbe \/ FenAllowDebug

SpecFen == Init /\ [][NextFen]_vars

Sign(x) == IF x > 0 THEN 1 ELSE IF x < 0 THEN -1 ELSE 0

Abs(x) == IF x < 0 THEN -x ELSE x

\* a and k are different squares of one rank or one file
Straight(a, k) ==
    a /= k /\ (a \div 8 = k \div 8 \/ a % 8 = k % 8)

\* a and k are different squares of one diagonal
Diagonal(a, k) ==
    a /= k /\ Abs((k \div 8) - (a \div 8)) = Abs((k % 8) - (a % 8))

\* The squares strictly between a and k on the rank, file or diagonal both
\* lie on
RaySquares(a, k) ==
    IF Straight(a, k) \/ Diagonal(a, k)
    THEN { a + t * (8 * Sign((k \div 8) - (a \div 8)) + Sign((k % 8) - (a % 8))) :
             t \in 1..(Max(Abs((k \div 8) - (a \div 8)),
                           Abs((k % 8) - (a % 8))) - 1) }
    ELSE {}

\* piece p slides along the line from a to k
SlidesAlong(p, a, k) ==
    \/ p.p_type \in {ROOK, QUEEN} /\ Straight(a, k)
    \/ p.p_type \in {BISHOP, QUEEN} /\ Diagonal(a, k)

\* In position b the piece on `from` is the only piece between an opposing
\* sliding piece and the mover's king at k, and leaves their line by moving
\* to `to`
OpensRay(b, from, to, k) ==
    /\ b.squares[from].p_type /= KING
    /\ \E a \in Squares \ {to} :
          /\ b.squares[a].color = opposite(b.squares[from].color)
          /\ SlidesAlong(b.squares[a], a, k)
          /\ from \in RaySquares(a, k)
          /\ to \notin RaySquares(a, k)
          /\ \A s \in RaySquares(a, k) \ {from} : is_none(b.squares[s])

\* In position b the move from -> to is one of the side to move that
\* is_move_possible accepts
PhysicallyPossible(b, from, to) ==
    /\ ~is_none(b.squares[from])
    /\ b.squares[from].color = b.color_to_move
    /\ (is_none(b.squares[to]) \/ b.squares[to].color /= b.color_to_move)
    /\ b.color_to_move \in DOMAIN b.kings_positions
    /\ is_move_possible(b.last_transition, b.squares[from], from, to,
                        b.squares).err = ""

\* C4: validate_move answers 'there will be check after a move' for a move
\* that is_move_possible accepts and that opens the line from an opposing
\* rook, bishop or queen to the mover's king, and accepts BLACK's a7-b7 in
\* "k7/q7/p7/8/8/8/R7/K7", where the pawn on a6 still shields the king.
C4_DiscoveredCheckRejected ==
    call.op = "validate_move" =>
        /\ (/\ PhysicallyPossible(pre, call.arg[1], call.arg[2])
            /\ OpensRay(pre, call.arg[1], call.arg[2],
                        pre.kings_positions[pre.color_to_move]))
           => call.ret = "there will be check after a move"
        /\ (/\ pre.squares = read_fen(BoardDefault, FenBlocked).board.squares
            /\ pre.color_to_move = BLACK
            /\ call.arg = <<48, 49>>)
           => call.ret = "Ok"

\* C6: validate_castle(king_pos, rook_pos) is true exactly when neither of
\* the two squares holds a piece with has_moved set and every square with
\* an index strictly between them is empty; attacks play no part.
C6_CastleOccupancyRule ==
    call.op = "validate_castle" =>
        (call.ret = "true" <=>
            /\ ~pre.squares[call.arg[1]].has_moved
            /\ ~pre.squares[call.arg[2]].has_moved
            /\ \A i \in Squares :
                  (Min(call.arg[1], call.arg[2]) < i
                   /\ i < Max(call.arg[1], call.arg[2]))
                  => pre.squares[i].p_type = NONE)

\* C6 witness: validate_castle(4, 7) answered true for an unmoved king and
\* rook although a BLACK rook on f8 attacks f1 down the empty f-file
C6_Witness ==
    /\ call.op = "validate_castle"
    /\ call.arg = <<4, 7>>
    /\ call.ret = "true"
    /\ pre.squares[4] = PieceNew(KING, WHITE)
    /\ pre.squares[7] = PieceNew(ROOK, WHITE)
    /\ pre.squares[61] = PieceNew(ROOK, BLACK)
    /\ \A i \in RaySquares(61, 5) : is_none(pre.squares[i])

\* What check_en_passant answers for from -> to in the live position
EnPassantCheck(from, to) ==
    check_en_passant(last_transition, squares[from], from, to, to - from,
                     squares)

\* C11: for a pawn's diagonal move onto an empty square, check_en_passant
\* fails with 'invalid en passant' when the square on the destination file
\* and the mover's rank holds a piece that is not a pawn or is of the
\* mover's color, and produces no additional transition when that square is
\* empty.
C11_InvalidEnPassant ==
    \A from \in Squares :
        squares[from].p_type = PAWN =>
            \A to \in DiagonalTargets(from, squares[from].color) :
                is_none(squares[to]) =>
                    /\ (/\ ~is_none(squares[EnPassantVictim(from, to)])
                        /\ \/ squares[EnPassantVictim(from, to)].p_type /= PAWN
                           \/ squares[EnPassantVictim(from, to)].color
                                 = squares[from].color)
                       => EnPassantCheck(from, to).err = "invalid en passant"
                    /\ is_none(squares[EnPassantVictim(from, to)])
                       => /\ EnPassantCheck(from, to).err = ""
                          /\ EnPassantCheck(from, to).aux = TransitionDefault

(***************************************************************************)
(* Games from the standard position in which the WHITE e-pawn captures its *)
(* way to g8 (board.rs 741).                                               *)
(***************************************************************************)

MaxPromotionMoves == 9

PromotionTokens ==
    { <<"e", "4">>, <<"e", "x", "f", "5">>, <<"f", "x", "g", "6">>,
      <<"g", "x", "h", "7">>, <<"h", "x", "g", "8", "=", "Q">>,
      <<"h", "x", "g", "8", "=", "N", "+">>, <<"d", "4">>,
      <<"f", "5">>, <<"g", "6">>, <<"N", "c", "6">>, <<"d", "6">> }

PromotionMove == \E m \in PromotionTokens : MakePgnMove(m, MaxPromotionMoves)

NextPromotion == PromotionMove

SpecPromotion == Init /\ [][NextPromotion]_vars

\* the last call was make_pgn_move with a pawn token carrying "=" and
\* returned Ok
PromotionApplied ==
    /\ call.op = "make_pgn_move"
    /\ call.ret = "Ok"
    /\ call.arg[1] \in pawn_letters
    /\ InSeq(call.arg, "=")

\* the piece kind a promotion token names after "="
PromotionKind(m) ==
    CASE InSeq(m, "Q") -> QUEEN
      [] InSeq(m, "R") -> ROOK
      [] InSeq(m, "B") -> BISHOP
      [] InSeq(m, "N") -> KNIGHT

\* C12: after make_pgn_move returned Ok for a pawn token with a promotion
\* suffix, the destination holds a piece of the kind named after "=", of the
\* mover's color and with has_moved set, not a PAWN, and the pawn's source
\* square is empty.
C12_PromotionKind ==
    PromotionApplied =>
        LET t == call.applied[Len(call.applied)]
        IN  /\ pre.squares[t[1]] =
                  [PieceNew(PAWN, pre.color_to_move) EXCEPT !.has_moved = TRUE]
            /\ squares[t[2]] =
                  [PieceNew(PromotionKind(call.arg), pre.color_to_move)
                      EXCEPT !.has_moved = TRUE]
            /\ squares[t[2]].p_type /= PAWN
            /\ squares[t[1]] = PieceDefault

\* C12 witness: hxg8=Q was applied and a WHITE queen stands on g8
C12_Witness ==
    /\ PromotionApplied
    /\ call.arg = <<"h", "x", "g", "8", "=", "Q">>
    /\ squares[62].p_type = QUEEN
    /\ squares[62].color = WHITE

\* The squares straight ahead of the pawn p on `from` that its advance can
\* end on: one step, and two steps while it has not moved
ForwardTargets(p, from) ==
    { to \in Squares :
        \/ to = from + (IF p.color = WHITE THEN 8 ELSE -8)
        \/ ~p.has_moved /\ to = from + (IF p.color = WHITE THEN 16 ELSE -16) }

\* C14: a pawn's forward (non-diagonal) move onto an occupied square is
\* rejected by is_move_possible with 'pawn cannot move to occupied place',
\* so a pawn never captures, or attacks a king, straight ahead of it.
C14_PawnForwardOntoOccupied ==
    \A from \in Squares :
        squares[from].p_type = PAWN =>
            \A to \in ForwardTargets(squares[from], from) :
                ~is_none(squares[to]) =>
                    is_move_possible(last_transition, squares[from], from, to,
                                     squares).err
                        = "pawn cannot move to occupied place"

\* C16: the diagonal offsets get_moves offers a pawn are exactly those to the
\* squares one rank ahead on the adjacent files: one on the a and h files,
\* two elsewhere, for BLACK as for WHITE.
C16_PawnDiagonalsStayOnBoard ==
    \A from \in Squares :
        squares[from].p_type = PAWN =>
            get_moves(squares[from], from) \cap {7, -7, 9, -9}
                = { to - from : to \in DiagonalTargets(from, squares[from].color) }

\* the elements of a sequence
Range(seq) == { seq[i] : i \in DOMAIN seq }

\* square i lies on the rank (digit) or file (letter) that hint names
OnHinted(hint, i) ==
    IF is_digit(hint) THEN i \div 8 = to_digit(hint) - 1
    ELSE i % 8 = letter_to_i32(hint)

\* C17: with a one-character hint find_piece_places answers exactly the
\* squares that hold a knight (rook) of the side to move and lie on the
\* hinted rank, for a digit, or file, for a letter.
C17_DisambiguationHint ==
    \A kind \in {KNIGHT, ROOK} :
        \A hint \in {"1", "2", "3", "4", "5", "6", "7", "8"} \cup pawn_letters :
            Range(find_piece_places(Live, kind, color_to_move, <<hint>>).places)
                = { i \in Squares : /\ squares[i].p_type = kind
                                    /\ squares[i].color = color_to_move
                                    /\ OnHinted(hint, i) }

(***************************************************************************)
(* is_move_possible for a lone sliding piece: a WHITE bishop, rook or      *)
(* queen on any square, with at most one other piece on the board.         *)
(***************************************************************************)

\* squares that may hold the other piece; OUT_OF_BOARD for none
BlockerSquares == {OUT_OF_BOARD, 1, 9, 14, 35, 49, 54}

\* the position with a WHITE piece of the kind on `from` and a BLACK knight
\* on blocker
SlidePosition(kind, from, blocker) ==
    [i \in Squares |-> IF i = from THEN PieceNew(kind, WHITE)
                       ELSE IF i = blocker THEN PieceNew(KNIGHT, BLACK)
                       ELSE PieceDefault]

InitSlide ==
    /\ \E kind \in {BISHOP, ROOK, QUEEN} :
          \E from \in Squares :
              \E blocker \in BlockerSquares \ {from} :
                  squares = SlidePosition(kind, from, blocker)
    /\ color_to_move = WHITE
    /\ kings_positions = <<>>
    /\ debug = FALSE
    /\ last_transition = TransitionDefault
    /\ pre = [BoardDefault EXCEPT !.squares = squares,
                                  !.kings_positions = <<>>]
    /\ call = [op |-> "read_fen", arg |-> <<>>, ret |-> "Ok",
               applied |-> <<>>]
    /\ moves = 0
    /\ status = "running"
    /\ pgn = NoPgn

\* A call of is_move_possible(&squares[from], from, to, squares) with the
\* displacement among the piece's offsets
IsMovePossibleCall(from, to) ==
    /\ status = "running"
    /\ is_sliding(squares[from])
    /\ to - from \in get_moves(squares[from], from)
    /\ call' = [op |-> "is_move_possible", arg |-> <<from, to>>,
                ret |-> is_move_possible(last_transition, squares[from], from,
                                         to, squares).err,
                applied |-> <<>>]
    /\ pre' = Live
    /\ moves' = moves
    /\ status' = "stopped"
    /\ UNCHANGED <<squares, color_to_move, kings_positions, debug,
                   last_transition, pgn>>

SlideProbe == \E from \in Squares : \E to \in Squares : IsMovePossibleCall(from, to)

NextSlide == SlideProbe

SpecSlide == InitSlide /\ [][NextSlide]_vars

\* C13: for a bishop, rook or queen and a destination among its offsets,
\* is_move_possible answers 'your move is blocked' exactly when a square
\* strictly between source and destination on the rank, file or diagonal
\* joining them is occupied, and accepts when all of them are empty.
C13_BlockedIffPieceBetween ==
    call.op = "is_move_possible" =>
        /\ call.ret = "your move is blocked"
           <=> \E s \in RaySquares(call.arg[1], call.arg[2]) :
                   ~is_none(pre.squares[s])
        /\ call.ret \in {"your move is blocked", ""}

\* C15: the offsets get_moves gives a rook are exactly the displacements to
\* the other squares of its rank and file, a bishop those to the other
\* squares of its two diagonals, a queen both; none leaves the board or
\* crosses its left or right edge.
C15_SlidingOffsetsExact ==
    \A from \in Squares :
        is_sliding(squares[from]) =>
            get_moves(squares[from], from)
                = { k - from : k \in { q \in Squares :
                                        SlidesAlong(squares[from], from, q) } }

\* C15 witness: a rook on the a-file was asked for a move along its rank
C15_Witness ==
    /\ call.op = "is_move_possible"
    /\ pre.squares[call.arg[1]].p_type = ROOK
    /\ call.arg[1] % 8 = 0
    /\ call.arg[2] \div 8 = call.arg[1] \div 8
    /\ call.ret = ""

\* C18: in every position reached from the standard one by make_pgn_move,
\* kings_positions has one entry for each color and the square it names for
\* a color holds a KING of that color.
C18_KingsPositionsExact ==
    /\ DOMAIN kings_positions = {BLACK, WHITE}
    /\ \A c \in {BLACK, WHITE} :
          /\ squares[kings_positions[c]].p_type = KING
          /\ squares[kings_positions[c]].color = c

\* C19: the board Board::default() builds maps WHITE's king to index 4 and
\* BLACK's to 60, has WHITE to move and the default (OUT, OUT) transition
\* as last_transition.
C19_StandardSetup ==
    call = NoCall =>
        /\ DOMAIN kings_positions = {BLACK, WHITE}
        /\ kings_positions[WHITE] = 4
        /\ kings_positions[BLACK] = 60
        /\ color_to_move = WHITE
        /\ last_transition = <<OUT_OF_BOARD, OUT_OF_BOARD, NONE>>

\* C19 witness: the standard position, both kings on their squares, before
\* any call
C19_Witness ==
    /\ call = NoCall
    /\ moves = 0
    /\ squares[4] = PieceNew(KING, WHITE)
    /\ squares[60] = PieceNew(KING, BLACK)
    /\ \A i \in 16..47 : is_none(squares[i])

(***************************************************************************)
(* SpecGames: read_pgn replays the games of the tests, one iteration of    *)
(* its loop per step.  pgn holds the locals of the running read_pgn: the   *)
(* argument (text), the text not yet consumed (game), the two counters,    *)
(* and the value returned ("" while the loop is running).                  *)
(***************************************************************************)

\* the pgn literal of the test read_pgn (board.rs 706-708)
pgn_read_pgn ==
    <<"1", ".", "e", "4", " ", "e", "5", " ", "2", ".", "N", "f", "3", " ",
      "f", "6", " ", "3", ".", "N", "x", "e", "5", " ", "f", "x", "e", "5",
      " ", "4", ".", "Q", "h", "5", "+", " ", "K", "e", "7", " ", "5", ".",
      "Q", "x", "e", "5", "+", " ", "K", "f", "7", " ", "6", ".", "B", "c",
      "4", "+", " ", "d", "5", " ", "7", ".", "B", "x", "d", "5", "+",
      "\n", " ", " ", " ", " ", "K", "g", "6", " ", "8", ".", "h", "4",
      " ", "h", "5", " ", "9", ".", "B", "x", "b", "7", " ", "B", "x", "b",
      "7", " ", "1", "0", ".", "Q", "f", "5", "+", " ", "K", "h", "6", " ",
      "1", "1", ".", "d", "4", "+", " ", "g", "5", " ", "1", "2", ".", "Q",
      "f", "7", " ", "Q", "e", "7", " ", "1", "3", ".", "h", "x", "g", "5",
      "+", " ", "Q", "x", "g", "5", "\n", " ", " ", " ", " ", "1", "4",
      ".", "R", "x", "h", "5", "#">>

\* the pgn literal of the test read_pgn_kasparov_topolov (board.rs 716-722)
pgn_read_pgn_kasparov_topolov ==
    <<"1", ".", " ", "e", "4", " ", "d", "6", " ", "2", ".", " ", "d", "4",
      " ", "N", "f", "6", " ", "3", ".", " ", "N", "c", "3", " ", "g", "6",
      " ", "4", ".", " ", "B", "e", "3", " ", "B", "g", "7", " ", "5", ".",
      " ", "Q", "d", "2", " ", "c", "6", " ", "6", ".", " ", "f", "3", " ",
      "b", "5", " ", "7", ".", " ", "N", "g", "e", "2", " ", "N", "b", "d",
      "7", " ", "8", ".", " ", "B", "h", "6", "\n", "B", "x", "h", "6",
      " ", "9", ".", " ", "Q", "x", "h", "6", " ", "B", "b", "7", " ", "1",
      "0", ".", " ", "a", "3", " ", "e", "5", " ", "1", "1", ".", " ", "O",
      "-", "O", "-", "O", " ", "Q", "e", "7", " ", "1", "2", ".", " ", "K",
      "b", "1", " ", "a", "6", " ", "1", "3", ".", " ", "N", "c", "1", " ",
      "O", "-", "O", "-", "O", " ", "1", "4", ".", " ", "N", "b", "3", " ",
      "e", "x", "d", "4", "\n", "1", "5", ".", " ", "R", "x", "d", "4",
      " ", "c", "5", " ", "1", "6", ".", " ", "R", "d", "1", " ", "N", "b",
      "6", " ", "1", "7", ".", " ", "g", "3", " ", "K", "b", "8", " ", "1",
      "8", ".", " ", "N", "a", "5", " ", "B", "a", "8", " ", "1", "9", ".",
      " ", "B", "h", "3", " ", "d", "5", " ", "2", "0", ".", " ", "Q", "f",
      "4", "+", " ", "K", "a", "7", " ", "2", "1", ".", " ", "R", "h", "e",
      "1", "\n", "d", "4", " ", "2", "2", ".", " ", "N", "d", "5", " ",
      "N", "b", "x", "d", "5", " ", "2", "3", ".", " ", "e", "x", "d", "5",
      " ", "Q", "d", "6", " ", "2", "4", ".", " ", "R", "x", "d", "4", " ",
      "c", "x", "d", "4", " ", "2", "5", ".", " ", "R", "e", "7", "+", " ",
      "K", "b", "6", " ", "2", "6", ".", " ", "Q", "x", "d", "4", "+", " ",
      "K", "x", "a", "5", " ", "2", "7", ".", " ", "b", "4", "+", "\n",
      "K", "a", "4", " ", "2", "8", ".", " ", "Q", "c", "3", " ", "Q", "x",
      "d", "5", " ", "2", "9", ".", " ", "R", "a", "7", " ", "B", "b", "7",
      " ", "3", "0", ".", " ", "R", "x", "b", "7", " ", "Q", "c", "4", " ",
      "3", "1", ".", " ", "Q", "x", "f", "6", " ", "K", "x", "a", "3", " ",
      "3", "2", ".", " ", "Q", "x", "a", "6", "+", " ", "K", "x", "b", "4",
      " ", "3", "3", ".", " ", "c", "3", "+", "\n", "K", "x", "c", "3",
      " ", "3", "4", ".", " ", "Q", "a", "1", "+", " ", "K", "d", "2", " ",
      "3", "5", ".", " ", "Q", "b", "2", "+", " ", "K", "d", "1", " ", "3",
      "6", ".", " ", "B", "f", "1", " ", "R", "d", "2", " ", "3", "7", ".",
      " ", "R", "d", "7", " ", "R", "x", "d", "7", " ", "3", "8", ".", " ",
      "B", "x", "c", "4", " ", "b", "x", "c", "4", " ", "3", "9", ".", " ",
      "Q", "x", "h", "8", "\n", "R", "d", "3", " ", "4", "0", ".", " ",
      "Q", "a", "8", " ", "c", "3", " ", "4", "1", ".", " ", "Q", "a", "4",
      "+", " ", "K", "e", "1", " ", "4", "2", ".", " ", "f", "4", " ", "f",
      "5", " ", "4", "3", ".", " ", "K", "c", "1", " ", "R", "d", "2", " ",
      "4", "4", ".", " ", "Q", "a", "7">>

\* the pgn literal of the test test_pgn_with_en_passant (board.rs 730-733)
pgn_test_pgn_with_en_passant ==
    <<"1", ".", " ", "e", "4", " ", "d", "5", " ", "2", ".", " ", "e", "x",
      "d", "5", " ", "Q", "x", "d", "5", " ", "3", ".", " ", "N", "c", "3",
      " ", "Q", "a", "5", " ", "4", ".", " ", "d", "3", " ", "c", "6", " ",
      "5", ".", " ", "B", "d", "2", " ", "Q", "c", "7", " ", "6", ".", " ",
      "Q", "e", "2", " ", "B", "d", "7", " ", "7", ".", " ", "O", "-", "O",
      "-", "O", " ", "N", "a", "6", " ", "8", ".", "\n", "N", "f", "3",
      " ", "O", "-", "O", "-", "O", " ", "9", ".", " ", "h", "4", " ", "N",
      "f", "6", " ", "1", "0", ".", " ", "h", "5", " ", "e", "6", " ", "1",
      "1", ".", " ", "N", "e", "5", " ", "g", "5", " ", "1", "2", ".", " ",
      "h", "x", "g", "6", " ", "h", "x", "g", "6", " ", "1", "3", ".", " ",
      "R", "x", "h", "8", " ", "B", "g", "7", " ", "1", "4", ".", " ", "R",
      "x", "d", "8", "+", "\n", "K", "x", "d", "8", " ", "1", "5", ".",
      " ", "N", "x", "f", "7", "+", " ", "K", "c", "8", " ", "1", "6", ".",
      " ", "Q", "x", "e", "6", " ", "B", "x", "e", "6", " ", "1", "7", ".",
      " ", "N", "e", "4", " ", "N", "x", "e", "4", " ", "1", "8", ".", " ",
      "d", "x", "e", "4", " ", "B", "x", "f", "7", " ", "1", "9", ".", " ",
      "B", "x", "a", "6", " ", "b", "x", "a", "6", " ", "2", "0", ".",
      "\n", "B", "f", "4", " ", "Q", "x", "f", "4", "+", " ", "2", "1",
      ".", " ", "K", "b", "1">>

\* the pgn literal of the test test_pgn_with_promotion (board.rs 741-742)
pgn_test_pgn_with_promotion ==
    <<"1", ".", " ", "e", "4", " ", "f", "5", " ", "2", ".", " ", "e", "x",
      "f", "5", " ", "g", "6", " ", "3", ".", " ", "f", "x", "g", "6", " ",
      "N", "c", "6", " ", "4", ".", " ", "g", "x", "h", "7", " ", "d", "6",
      " ", "5", ".", " ", "h", "x", "g", "8", "=", "Q", " ", "B", "e", "6",
      " ", "6", ".", " ", "Q", "h", "5", "+", " ", "K", "d", "7", " ", "7",
      ".", " ", "Q", "x", "e", "6", "+", "\n", "K", "x", "e", "6", " ",
      "8", ".", " ", "Q", "g", "4", "+", " ", "K", "d", "5", " ", "9", ".",
      " ", "N", "c", "3", "+", " ", "K", "c", "5", " ", "1", "0", ".", " ",
      "Q", "c", "4", "+", " ", "K", "b", "6", " ", "1", "1", ".", " ", "Q",
      "b", "5", "#">>

PgnTests ==
    { <<"read_pgn", pgn_read_pgn>>,
      <<"read_pgn_kasparov_topolov", pgn_read_pgn_kasparov_topolov>>,
      <<"test_pgn_with_en_passant", pgn_test_pgn_with_en_passant>>,
      <<"test_pgn_with_promotion", pgn_test_pgn_with_promotion>> }

\* String::from(pgn.replace("\n", " ").replace("  ", " "))
read_pgn_game(text) ==
    replace(replace(text, <<"\n">>, <<" ">>), <<" ", " ">>, <<" ">>)

\* while temp_game.starts_with(" ") { temp_game = temp_game.replacen(" ", "", 1) }
RECURSIVE strip_leading_spaces(_)
strip_leading_spaces(s) ==
    IF starts_with(s, <<" ">>)
    THEN strip_leading_spaces(replacen_once(s, <<" ">>, <<>>))
    ELSE s

\* an iteration that loses the token after the one it reads
read_pgn_split_skipping(p) ==
    LET game == IF p.color_counter = 0
                THEN replacen_once(p.game,
                                   to_string(p.general_counter) \o <<".">>,
                                   <<>>)
                ELSE p.game
        parts == split_once(strip_leading_spaces(game), <<" ">>)
        after == split_once(strip_leading_spaces(parts.rest), <<" ">>)
    IN  [chess_move |-> parts.head,
         game |-> IF after.found THEN after.rest ELSE <<>>]

\* The head of one iteration of the loop: the move number is taken out when
\* WHITE is to be read, leading spaces are dropped, and the text is split at
\* its first space into the token and what remains
read_pgn_split(p) ==
    LET game == IF p.color_counter = 0
                THEN replacen_once(p.game,
                                   to_string(p.general_counter) \o <<".">>,
                                   <<>>)
                ELSE p.game
        temp_game == strip_leading_spaces(game)
        parts == split_once(temp_game, <<" ">>)
    IN  [chess_move |-> parts.head,
         game |-> IF parts.found THEN parts.rest ELSE <<>>]

\* counters whose move number never advances
read_pgn_counters_same_number(p) ==
    [general_counter |-> p.general_counter,
     color_counter |-> 1 - p.color_counter]

\* the counters after a token was applied
read_pgn_counters(p) ==
    IF p.color_counter = 1
    THEN [general_counter |-> p.general_counter + 1, color_counter |-> 0]
    ELSE [general_counter |-> p.general_counter,
          color_counter |-> p.color_counter + 1]

\* let mut b = Board::default(); b.allow_debug(); b.read_pgn(pgn, true)
\* up to the first test of the loop
InitGames ==
    /\ squares = BoardDefault.squares
    /\ color_to_move = BoardDefault.color_to_move
    /\ kings_positions = BoardDefault.kings_positions
    /\ debug = allow_debug(BoardDefault).debug
    /\ last_transition = BoardDefault.last_transition
    /\ pre = allow_debug(BoardDefault)
    /\ call = NoCall
    /\ moves = 0
    /\ status = "running"
    /\ \E t \in PgnTests :
          pgn = [test |-> t[1], text |-> t[2], game |-> read_pgn_game(t[2]),
                 general_counter |-> 1, color_counter |-> 0, ret |-> ""]

\* One iteration of the loop of read_pgn: the next token goes to
\* make_pgn_move; its error is returned at once, otherwise the counters
\* advance
ReadPgnStep ==
    /\ status = "running"
    /\ pgn.test /= ""
    /\ pgn.game /= <<>>
    /\ LET it == read_pgn_split(pgn)
           counters == read_pgn_counters(pgn)
       IN  /\ PgnOutcome(it.chess_move, make_pgn_move(Live, it.chess_move))
           /\ pgn' = IF call'.ret = "Ok"
                     THEN [pgn EXCEPT
                             !.game = it.game,
                             !.general_counter = counters.general_counter,
                             !.color_counter = counters.color_counter]
                     ELSE [pgn EXCEPT !.game = it.game, !.ret = call'.ret]

\* if game.len() == 0 { break; } ... Ok(())
ReadPgnDone ==
    /\ status = "running"
    /\ pgn.test /= ""
    /\ pgn.game = <<>>
    /\ pre' = Live
    /\ call' = [op |-> "read_pgn", arg |-> <<>>, ret |-> "Ok",
                applied |-> <<>>]
    /\ pgn' = [pgn EXCEPT !.ret = "Ok"]
    /\ status' = "done"
    /\ UNCHANGED <<squares, color_to_move, kings_positions, debug,
                   last_transition, moves>>

NextGames ==
    \/ ReadPgnStep
    \/ ReadPgnDone

SpecGames == InitGames /\ [][NextGames]_vars

\* the two historical games among the replayed tests
HistoricalGames == {"read_pgn", "read_pgn_kasparov_topolov"}

\* C20: replaying the 14-move game ending 14.Rxh5# and the 44-move
\* Kasparov-Topalov excerpt from the standard position, no token fails:
\* every make_pgn_move of the loop returns Ok and applies its half-move, so
\* the loop is never left by an error or a panic, and read_pgn returns Ok
\* after all 27 and all 87 half-moves.
C20_HistoricalGamesReplay ==
    pgn.test \in HistoricalGames =>
        /\ status /= "stopped"
        /\ pgn.ret \in {"", "Ok"}
        /\ call.op = "make_pgn_move" =>
              /\ call.ret = "Ok"
              /\ call.applied /= <<>>
        /\ status = "done" =>
              /\ call.op = "read_pgn"
              /\ call.ret = "Ok"
              /\ pgn.ret = "Ok"
              /\ pgn.game = <<>>
              /\ moves = IF pgn.test = "read_pgn" THEN 2 * 14 - 1
                         ELSE 2 * 44 - 1

\* read_pgn has returned Ok for the Kasparov-Topalov excerpt after its last
\* token, 44. Qa7
C20_Witness ==
    /\ pgn.test = "read_pgn_kasparov_topolov"
    /\ status = "done"
    /\ pgn.ret = "Ok"
    /\ pre.squares[48].p_type = QUEEN
    /\ pre.squares[48].color = WHITE
    /\ moves = 87

\* C21: replaying the en passant test game (1. e4 d5 2. exd5 Qxd5 ...
\* 12. hxg6 hxg6 ... 21. Kb1) from the standard position, no token fails:
\* every make_pgn_move of the loop returns Ok, WHITE's en passant capture
\* 12. hxg6 and BLACK's recapture 12... hxg6 included, and read_pgn returns
\* Ok after all 41 half-moves.
C21_EnPassantGameReplay ==
    pgn.test = "test_pgn_with_en_passant" =>
        /\ status /= "stopped"
        /\ pgn.ret \in {"", "Ok"}
        /\ call.op = "make_pgn_move" => call.ret = "Ok"
        /\ status = "done" => moves = 2 * 21 - 1

(***************************************************************************)
(* SpecReplay: read_pgn on the games of the tests and on every game of at  *)
(* most MaxReplayTokens tokens of ReplayTokens, written as the literals of *)
(* the tests are written: "1.e4 e5 2.Nf3", "1. e4 e5 2. Nf3", or with a    *)
(* line break and indentation before a move number.                       *)
(***************************************************************************)

MaxReplayTokens == 4

ReplayTokens ==
    { <<"e", "4">>, <<"e", "5">>, <<"d", "5">>, <<"e", "x", "d", "5">>,
      <<"N", "f", "3">>, O_O }

ReplayStyles == {"tight", "spaced", "indented"}

\* the pgn text of the token list ts in the given style
format_pgn(ts, style) ==
    LET number(i) == to_string((i + 1) \div 2) \o <<".">>
        piece(i) ==
            IF i % 2 = 0 THEN <<" ">> \o ts[i]
            ELSE (IF i = 1 THEN <<>>
                  ELSE IF style = "indented"
                  THEN <<"\n", " ", " ", " ", " ">>
                  ELSE <<" ">>)
                 \o number(i)
                 \o (IF style = "spaced" THEN <<" ">> ELSE <<>>)
                 \o ts[i]
    IN  concat([i \in 1..Len(ts) |-> piece(i)], 1, Len(ts))

ReplayGames ==
    UNION { [1..n -> ReplayTokens] : n \in 1..MaxReplayTokens }

\* let mut b = Board::default(); b.allow_debug(); b.read_pgn(pgn, true)
\* up to the first test of the loop
InitReplay ==
    /\ squares = BoardDefault.squares
    /\ color_to_move = BoardDefault.color_to_move
    /\ kings_positions = BoardDefault.kings_positions
    /\ debug = allow_debug(BoardDefault).debug
    /\ last_transition = BoardDefault.last_transition
    /\ pre = allow_debug(BoardDefault)
    /\ call = NoCall
    /\ moves = 0
    /\ status = "running"
    /\ \/ \E t \in PgnTests :
             pgn = [test |-> t[1], text |-> t[2],
                    game |-> read_pgn_game(t[2]),
                    general_counter |-> 1, color_counter |-> 0, ret |-> ""]
       \/ \E ts \in ReplayGames, style \in ReplayStyles :
             LET text == format_pgn(ts, style)
             IN  pgn = [test |-> style, text |-> text,
                        game |-> read_pgn_game(text),
                        general_counter |-> 1, color_counter |-> 0,
                        ret |-> ""]

SpecReplay == InitReplay /\ [][NextGames]_vars

\* The tokens a pgn text holds, read off the text itself: its maximal runs
\* of characters other than space and line break, without a leading move
\* number "N."
Whitespace == {" ", "\n"}

WordStarts(text) ==
    LET starts(i) == /\ text[i] \notin Whitespace
                     /\ i = 1 \/ text[i - 1] \in Whitespace
    IN  SelectSeq([i \in 1..Len(text) |-> i], starts)

WordAt(text, i) ==
    LET last == CHOOSE j \in i..Len(text) :
                    /\ \A k \in i..j : text[k] \notin Whitespace
                    /\ j = Len(text) \/ text[j + 1] \in Whitespace
    IN  SubSeq(text, i, last)

WithoutNumber(w) ==
    LET digits == Cardinality({i \in 1..Len(w) :
                                 \A k \in 1..i : is_digit(w[k])})
    IN  IF digits > 0 /\ digits < Len(w) /\ w[digits + 1] = "."
        THEN Tail_from(w, digits + 2)
        ELSE w

TokensOf(text) ==
    LET starts == WordStarts(text)
        words == [k \in 1..Len(starts) |->
                    WithoutNumber(WordAt(text, starts[k]))]
        nonempty(w) == w /= <<>>
    IN  SelectSeq(words, nonempty)

\* C22 (state part): the k-th make_pgn_move of read_pgn is given the k-th
\* token of the text; read_pgn returns Ok only after every token succeeded;
\* when a token fails, read_pgn returns that token's error with exactly the
\* earlier tokens applied and the board as it was before the failing token.
ReplayInOrder ==
    LET tokens == TokensOf(pgn.text)
    IN  /\ moves <= Len(tokens)
        /\ call.op = "make_pgn_move" =>
              /\ call.ret = "Ok" =>
                    /\ call.arg = tokens[moves]
                    /\ status = "running"
                    /\ pgn.ret = ""
              /\ call.ret /= "Ok" =>
                    /\ moves < Len(tokens)
                    /\ call.arg = tokens[moves + 1]
                    /\ status = "stopped"
                    /\ pgn.ret = call.ret
                    /\ Live = pre
        /\ status = "done" =>
              /\ pgn.ret = "Ok"
              /\ moves = Len(tokens)
        /\ pgn.ret = "Ok" => status = "done"

\* C22: read_pgn feeds the tokens to make_pgn_move strictly in order; it
\* returns Ok only if every token succeeded, and otherwise returns the
\* error of the first failing token, with all earlier tokens applied, the
\* failing token not applied, and no later token attempted (no step is
\* taken once a token has failed).
C22_ReadPgnFirstError ==
    /\ []ReplayInOrder
    /\ [][status = "running"]_vars

\* read_pgn has returned the error of a token that was neither the first
\* nor the last of its text
C22_Witness ==
    /\ status = "stopped"
    /\ call.op = "make_pgn_move"
    /\ pgn.ret = "invalid move"
    /\ moves >= 1
    /\ moves + 1 < Len(TokensOf(pgn.text))
    /\ pgn.game /= <<>>

(***************************************************************************)
(* SpecValidate: validate_move is called for every pair of squares in the  *)
(* positions of the first MaxValidateMoves half-moves of ValidateTokens.   *)
(***************************************************************************)

MaxValidateMoves == 3

ValidateTokens ==
    { <<"e", "4">>, <<"d", "5">>, <<"e", "x", "d", "5">>, <<"N", "f", "3">>,
      <<"N", "f", "6">> }

ValidateMove == \E m \in ValidateTokens : MakePgnMove(m, MaxValidateMoves)

ValidateProbe == \E from \in Squares, to \in Squares : ValidateMoveCall(from, to)

NextValidate == ValidateMove \/ ValidateProbe

SpecValidate == Init /\ [][NextValidate]_vars

PreconditionError ==
    "piece is none, position_to is occupied by the same color piece or it is not your move"

\* the source square of b is empty, or the destination holds a piece of
\* the source piece's color, or the source piece is not of the side to move
PreconditionFails(b, from, to) ==
    \/ b.squares[from].p_type = NONE
    \/ /\ b.squares[to].p_type /= NONE
       /\ b.squares[to].color = b.squares[from].color
    \/ b.squares[from].color /= b.color_to_move

\* C23: for all squares from and to, validate_move(from, to) returns the
\* precondition error whenever the source square is empty, or the
\* destination holds a piece of the source piece's color, or the source
\* piece is not of the side to move, whatever the other legality checks
\* would say; it returns that error in no other case, and leaves the board
\* as it was.
C23_PreconditionFirst ==
    call.op = "validate_move" =>
        /\ PreconditionFails(pre, call.arg[1], call.arg[2])
              <=> call.ret = PreconditionError
        /\ call.ret = PreconditionError => Live = pre

\* validate_move returned the precondition error for a move of the side
\* not to move whose offset the piece does have and whose path is free
\* (BLACK's e7-e5 asked for with WHITE to move)
C23_Witness ==
    /\ call.op = "validate_move"
    /\ call.arg = <<52, 36>>
    /\ call.ret = PreconditionError
    /\ pre.color_to_move = WHITE
    /\ pre.squares[52].color = BLACK
    /\ pre.squares[52].p_type = PAWN
    /\ pre.squares[44].p_type = NONE
    /\ pre.squares[36].p_type = NONE

\* the empty sentinel Piece::default() is the only piece of kind NONE or of
\* color NONE
SentinelOrPiece(p) ==
    /\ p.p_type = NONE <=> p.color = NONE
    /\ p.color \in {NONE, BLACK, WHITE}
    /\ p.p_type = NONE => ~p.has_moved

\* C24: in every state reached from the loaded standard position by
\* make_pgn_move calls, each of the 64 squares holds kind NONE if and only
\* if it holds color NONE: an occupied square has color BLACK or WHITE, and
\* every square an applied transition vacated (the source of a move, the
\* victim of an en passant capture) holds the empty sentinel (kind NONE,
\* color NONE, has_moved false).
C24_EmptySentinel ==
    /\ \A i \in Squares : SentinelOrPiece(squares[i])
    /\ (call.op = "make_pgn_move" /\ call.ret = "Ok") =>
          \A k \in 1..Len(call.applied) :
              /\ pre.squares[call.applied[k][1]].p_type /= NONE
              /\ squares[call.applied[k][1]] =
                    [p_type |-> NONE, color |-> NONE, has_moved |-> FALSE]

\* an en passant capture has just vacated two squares, the capturing
\* pawn's and the victim's
C24_Witness ==
    /\ AppliedEnPassant
    /\ moves >= 3
    /\ squares[call.applied[1][1]].color = NONE
    /\ squares[call.applied[2][1]].color = NONE
    /\ pre.squares[call.applied[1][1]].p_type = PAWN
    /\ squares[call.applied[2][2]].p_type = PAWN

\* The layout read as a diagram: its rows, from rank 8 down to rank 1, are
\* separated by "/"; in a row a digit stands for that many empty squares
\* (".") and a letter for one piece.
LayoutRows(fen) ==
    LET slash(i) == fen[i] = "/"
        cuts == <<0>> \o SelectSeq([i \in 1..Len(fen) |-> i], slash)
                     \o <<Len(fen) + 1>>
    IN  [k \in 1..(Len(cuts) - 1) |->
            SubSeq(fen, cuts[k] + 1, cuts[k + 1] - 1)]

RECURSIVE ExpandRow(_)
ExpandRow(row) ==
    IF row = <<>> THEN <<>>
    ELSE IF is_digit(Head(row))
    THEN [i \in 1..to_digit(Head(row)) |-> "."] \o ExpandRow(Tail(row))
    ELSE <<Head(row)>> \o ExpandRow(Tail(row))

\* the character of the diagram at rank r, file f (both 1..8)
LayoutAt(fen, r, f) == ExpandRow(LayoutRows(fen)[9 - r])[f]

PieceLetters == {"k", "q", "r", "b", "n", "p", "K", "Q", "R", "B", "N", "P"}

WellFormedLayout(fen) ==
    /\ Len(LayoutRows(fen)) = 8
    /\ \A k \in 1..8 :
          /\ Len(ExpandRow(LayoutRows(fen)[k])) = 8
          /\ \A f \in 1..8 :
                ExpandRow(LayoutRows(fen)[k])[f] \in PieceLetters \cup {"."}
    /\ \A c \in {"k", "K"} :
          Cardinality({<<r, f>> \in (1..8) \X (1..8) :
                         LayoutAt(fen, r, f) = c}) <= 1

\* the piece a letter of the diagram describes
LayoutPiece(c) ==
    [p_type |-> CASE c \in {"k", "K"} -> KING
                  [] c \in {"q", "Q"} -> QUEEN
                  [] c \in {"r", "R"} -> ROOK
                  [] c \in {"b", "B"} -> BISHOP
                  [] c \in {"n", "N"} -> KNIGHT
                  [] c \in {"p", "P"} -> PAWN,
     color |-> IF c \in {"k", "q", "r", "b", "n", "p"} THEN BLACK ELSE WHITE,
     has_moved |-> FALSE]

LayoutKings(fen) ==
    {<<color, (r - 1) * 8 + (f - 1)>> :
        <<color, r, f>> \in
            {t \in {BLACK, WHITE} \X (1..8) \X (1..8) :
                LayoutAt(fen, t[2], t[3]) = IF t[1] = BLACK THEN "k" ELSE "K"}}

\* C25: after read_fen(layout) with a well-formed layout, whatever the
\* board held before, the piece described at rank r, file f sits at index
\* (r-1)*8 + (f-1) with has_moved false, every other square is empty, and
\* kings_positions holds exactly the kings of the layout, each at its index.
C25_ReadFenFromLayoutAlone ==
    (call.op = "read_fen" /\ WellFormedLayout(call.arg)) =>
        /\ call.ret = "Ok"
        /\ \A r \in 1..8, f \in 1..8 :
              squares[(r - 1) * 8 + (f - 1)] =
                 IF LayoutAt(call.arg, r, f) = "."
                 THEN [p_type |-> NONE, color |-> NONE, has_moved |-> FALSE]
                 ELSE LayoutPiece(LayoutAt(call.arg, r, f))
        /\ {<<c, kings_positions[c]>> : c \in DOMAIN kings_positions}
              = LayoutKings(call.arg)

\* a layout with the WHITE king alone has been loaded over a board that
\* held both kings, pieces that had moved, and pieces on squares the layout
\* leaves empty
C25_Witness ==
    /\ call.op = "read_fen"
    /\ call.ret = "Ok"
    /\ DOMAIN kings_positions = {WHITE}
    /\ DOMAIN pre.kings_positions = {BLACK, WHITE}
    /\ \E i \in Squares : pre.squares[i].has_moved
    /\ \E i \in Squares : pre.squares[i].p_type /= NONE
                          /\ squares[i].p_type = NONE

\* the candidate transitions of the token m on the board b, and those of
\* them validate_move accepts
Candidates(b, m) ==
    LET tr == translate_pgn_move(b, m)
    IN  {tr.transitions[k] : k \in 1..Len(tr.transitions)}

Accepted(b, m) ==
    {t \in Candidates(b, m) :
        LET v == validate_move(b, t[1], t[2]) IN v.err = "" /\ ~v.panic}

\* C26: for a non-castling token that names a piece and a square,
\* make_pgn_move applies exactly one candidate transition, the one with the
\* lowest source-square index among the candidates validate_move accepts
\* (after that candidate's en passant removal, if it has one); no other
\* candidate's source square changes; and if no candidate is accepted it
\* returns "invalid move" and changes nothing.
C26_LowestAcceptedCandidate ==
    (/\ call.op = "make_pgn_move"
     /\ call.arg \notin {O_O, O_O_O}
     /\ call.ret /= "panic"
     /\ translate_pgn_move(pre, call.arg).err = "") =>
        LET accepted == Accepted(pre, call.arg)
        IN  IF accepted = {}
            THEN /\ call.ret = "invalid move"
                 /\ Position(Live) = Position(pre)
            ELSE LET first == CHOOSE t \in accepted :
                                  \A u \in accepted : t[1] <= u[1]
                 IN  /\ call.ret = "Ok"
                     /\ call.applied[Len(call.applied)] = first
                     /\ \A k \in 1..(Len(call.applied) - 1) :
                           call.applied[k][2] = OUT_OF_BOARD
                     /\ squares[first[1]].p_type = NONE
                     /\ squares[first[2]].color = pre.squares[first[1]].color
                     /\ \A u \in Candidates(pre, call.arg) :
                           u[1] /= first[1] =>
                              squares[u[1]] = pre.squares[u[1]]

\* a token with two accepted candidates has been applied: the candidate on
\* the lower square moved and the other stayed
C26_Witness ==
    /\ call.op = "make_pgn_move"
    /\ call.ret = "Ok"
    /\ call.arg \notin {O_O, O_O_O}
    /\ Cardinality(Accepted(pre, call.arg)) >= 2
    /\ \E t \in Accepted(pre, call.arg) :
          /\ t[1] > call.applied[Len(call.applied)][1]
          /\ squares[t[1]] = pre.squares[t[1]]
          /\ squares[t[1]].p_type /= NONE

\* the last transition a successful make_pgn_move applied
LastApplied == call.applied[Len(call.applied)]

\* C27: after every successful make_pgn_move, last_transition is
\* (from, to, NONE) of the last piece-moving transition applied: the
\* primary move of an ordinary move, capture, promotion or en passant
\* capture (never the en passant removal), and the rook's transition after
\* castling; a failed make_pgn_move leaves last_transition as it was.
C27_LastTransition ==
    call.op = "make_pgn_move" =>
        IF call.ret = "Ok"
        THEN /\ LastApplied[2] /= OUT_OF_BOARD
             /\ last_transition = <<LastApplied[1], LastApplied[2], NONE>>
             /\ pre.squares[LastApplied[1]].p_type =
                   IF call.arg \in {O_O, O_O_O} THEN ROOK
                   ELSE IF is_lowercase(call.arg[1]) THEN PAWN
                   ELSE CASE call.arg[1] = "K" -> KING
                          [] call.arg[1] = "Q" -> QUEEN
                          [] call.arg[1] = "R" -> ROOK
                          [] call.arg[1] = "B" -> BISHOP
                          [] call.arg[1] = "N" -> KNIGHT
             /\ squares[LastApplied[2]].color = pre.color_to_move
        ELSE last_transition = pre.last_transition

\* the three cases have happened: a castling recorded as its rook's
\* transition, an en passant capture and a promotion recorded as the
\* pawn's move without the removal and without the promotion kind
C27_Witness ==
    /\ call.op = "make_pgn_move"
    /\ call.ret = "Ok"
    /\ \/ /\ call.arg = O_O_O
          /\ last_transition \in {<<0, 3, NONE>>, <<56, 59, NONE>>}
       \/ /\ Len(call.applied) = 2
          /\ call.applied[1][2] = OUT_OF_BOARD
          /\ last_transition = <<39, 46, NONE>>
       \/ /\ LastApplied[3] = QUEEN
          /\ last_transition = <<55, 62, NONE>>

\* C28: a king is displaced by two files only by a castling token:
\* validate_move accepts no move of the king of the side to move to the
\* square two files to its left or right (as Kg1 or Kc1 would ask for with
\* the king on e1).
C28_KingTwoFilesOnlyByCastling ==
    \A from \in Squares :
        (squares[from].p_type = KING /\ squares[from].color = color_to_move) =>
            \A to \in {from - 2, from + 2} \cap Squares :
                LET v == validate_move(Live, from, to)
                IN  v.err /= "" \/ v.panic

\* C29: validate_move accepts a pawn's two-square advance (offset +16 or
\* -16) only if the square it passes over and its destination are both
\* empty.
C29_TwoSquareAdvanceOverEmptySquares ==
    \A from \in Squares :
        (squares[from].p_type = PAWN /\ squares[from].color = color_to_move) =>
            \A to \in {from - 16, from + 16} \cap Squares :
                LET v == validate_move(Live, from, to)
                IN  (v.err = "" /\ ~v.panic) =>
                        /\ squares[(from + to) \div 2].p_type = NONE
                        /\ squares[to].p_type = NONE

\* every piece whose has_moved flag is false stands where the standard
\* position has it, with the same kind and color
UnmovedAtHome ==
    \A i \in Squares :
        (squares[i].p_type /= NONE /\ ~squares[i].has_moved) =>
            squares[i] = BoardDefault.squares[i]

\* a step that applies transitions leaves the piece of each of them on its
\* destination with has_moved = true, and changes no square other than the
\* sources and destinations of the applied transitions
MovedIsMarked ==
    (call'.op = "make_pgn_move" /\ call'.ret = "Ok") =>
        LET applied == {call'.applied[k] : k \in 1..Len(call'.applied)}
            touched == {t[1] : t \in applied} \cup {t[2] : t \in applied}
        IN  /\ \A t \in applied :
                  t[2] /= OUT_OF_BOARD =>
                      /\ squares'[t[2]].has_moved
                      /\ squares'[t[2]].color = squares[t[1]].color
            /\ \A i \in Squares \ touched : squares'[i] = squares[i]

\* C30: in every state reached from the standard position by
\* make_pgn_move, a piece whose has_moved flag is false stands on the
\* square it occupied in the standard position with its original kind and
\* color; and every piece that is the moving piece of an applied transition
\* has has_moved = true from then on (no step changes a piece it does not
\* move or remove).
C30_HasMoved ==
    /\ []UnmovedAtHome
    /\ [][MovedIsMarked]_vars

\* WHITE has castled short: king and rook are marked as moved, and the
\* BLACK king and rooks, which never moved, are not
C30_Witness ==
    /\ call.op = "make_pgn_move"
    /\ call.arg = O_O
    /\ call.ret = "Ok"
    /\ squares[6].p_type = KING /\ squares[6].has_moved
    /\ squares[5].p_type = ROOK /\ squares[5].has_moved
    /\ ~squares[60].has_moved /\ squares[60].p_type = KING
    /\ ~squares[0].has_moved /\ squares[0].p_type = ROOK

\* the number of pieces of a color on a board
PieceCount(sq, color) == Cardinality({i \in Squares : sq[i].color = color})

\* C31: from the standard position, every successful make_pgn_move leaves
\* the number of pieces of the side that moved unchanged and reduces the
\* number of pieces of the other side by at most one; no piece is added, no
\* piece changes color (each moved piece keeps its color and every square
\* not named by an applied transition is unchanged), and no piece of the
\* mover's color is removed.
C31_PieceCounts ==
    (call.op = "make_pgn_move" /\ call.ret = "Ok") =>
        LET mover == pre.color_to_move
            other == opposite(mover)
            applied == {call.applied[k] : k \in 1..Len(call.applied)}
            touched == {t[1] : t \in applied} \cup {t[2] : t \in applied}
        IN  /\ PieceCount(squares, mover) = PieceCount(pre.squares, mover)
            /\ PieceCount(squares, other) \in
                  {PieceCount(pre.squares, other),
                   PieceCount(pre.squares, other) - 1}
            /\ PieceCount(squares, NONE) >= PieceCount(pre.squares, NONE)
            /\ \A t \in applied :
                  IF t[2] = OUT_OF_BOARD
                  THEN pre.squares[t[1]].color = other
                  ELSE /\ pre.squares[t[1]].color = mover
                       /\ squares[t[2]].color = mover
                       /\ pre.squares[t[2]].color /= mover
            /\ \A i \in Squares \ touched : squares[i] = pre.squares[i]

\* a capture has just taken one piece of the other side and none of the
\* mover's
C31_Witness ==
    /\ call.op = "make_pgn_move"
    /\ call.ret = "Ok"
    /\ Len(call.applied) = 1
    /\ pre.squares[call.applied[1][2]].color = opposite(pre.color_to_move)
    /\ PieceCount(squares, color_to_move)
          = PieceCount(pre.squares, color_to_move) - 1
    /\ PieceCount(squares, pre.color_to_move)
          = PieceCount(pre.squares, pre.color_to_move)

\* C32: read_fen changes only squares and kings_positions: color_to_move,
\* last_transition and the debug flag keep the values they had before the
\* call, also when read_fen is called after moves have been played.
C32_ReadFenFrame ==
    call.op = "read_fen" =>
        /\ color_to_move = pre.color_to_move
        /\ last_transition = pre.last_transition
        /\ debug = pre.debug

\* read_fen has been called after a move, with BLACK to move, a last move
\* recorded and debugging allowed, and it replaced the squares
C32_Witness ==
    /\ call.op = "read_fen"
    /\ call.ret = "Ok"
    /\ moves >= 1
    /\ color_to_move = BLACK
    /\ last_transition /= TransitionDefault
    /\ debug
    /\ squares /= pre.squares
    /\ kings_positions /= pre.kings_positions

(***************************************************************************)
(* SpecLastRank: games in which a BLACK pawn walks down the d-file to the  *)
(* second rank and is then asked to move diagonally onto the first.       *)
(***************************************************************************)

MaxLastRankMoves == 10

LastRankTokens ==
    { <<"N", "c", "3">>, <<"N", "b", "5">>, <<"a", "3">>, <<"a", "4">>,
      <<"a", "5">>, <<"d", "5">>, <<"d", "4">>, <<"d", "3">>,
      <<"d", "x", "c", "2">>, <<"c", "x", "b", "1">> }

LastRankMove == \E m \in LastRankTokens : MakePgnMove(m, MaxLastRankMoves)

NextLastRank == LastRankMove

SpecLastRank == Init /\ [][NextLastRank]_vars

\* C33: for every pawn of the side to move and every diagonal move of it
\* onto an empty square of the board, the two indices check_en_passant
\* computes (destination + 8 and destination - 8, as unsigned values) are
\* not negative and the one it reads the board at is in 0..63: no
\* subtraction wraps and no read is out of bounds, also for a BLACK pawn
\* moving onto the first rank.
C33_EnPassantIndicesInRange ==
    \A from \in Squares :
        (squares[from].p_type = PAWN /\ squares[from].color = color_to_move) =>
            \A to \in DiagonalTargets(from, squares[from].color) :
                squares[to].p_type = NONE =>
                    LET r == is_move_possible(last_transition, squares[from],
                                              from, to, squares)
                    IN  ~r.ovf /\ ~r.panic

=============================================================================
